---- MODULE Spec2Model ----
(***************************************************************************)
(* A model of the arrange reflection core and of the arrangehttp client    *)
(* builder: the fluent builder C (Use, ClientFactory, Unmarshal,           *)
(* UnmarshalKey), the constructor it synthesizes (the MakeFunc body and    *)
(* newClient), NewTarget, VisitFields and IsDependency.                    *)
(***************************************************************************)
EXTENDS Integers, Sequences, FiniteSets, TLC

\* ------------------------------------------------------------------ bounds
MaxOptions == 2    \* literal options registered with Use
MaxDeps == 2       \* fx.In structs registered with Use
MaxBad == 1        \* unsupported values passed to Use
MaxCallables == 1  \* calls of Unmarshal / UnmarshalKey on one builder
MaxInv == 2        \* invocations in flight at once
MaxVal == 2        \* largest value of a configuration field
MaxAddr == MaxInv + 1

Addrs == 1 .. MaxAddr
Invs == 1 .. MaxInv

\* ------------------------------------------------------------------ values
\* A configuration struct (the pointee type of a prototype).
ConfigVals == [Timeout : 0 .. MaxVal, Retries : 0 .. MaxVal]
ZeroConfig == [Timeout |-> 0, Retries |-> 0]
Free == [Timeout |-> -1, Retries |-> -1]

\* errors; NoErr is the nil error
NoErr == [kind |-> "nil", of |-> <<>>]
DecodeErr == [kind |-> "decode", of |-> <<>>]
FactoryErr == [kind |-> "NewClient", of |-> <<>>]
UnsupportedErr == [kind |-> "is not supported as a COption", of |-> <<>>]
NotInErr == [kind |-> "does not refer to an fx.In struct", of |-> <<>>]
OptionErr(o) == [kind |-> "option", of |-> <<o>>]

\* a COption: where it came from and whether calling it returns an error
NilOpt == [src |-> "nil", n |-> 0, field |-> "", fails |-> FALSE]
LitOpt(n, fails) == [src |-> "lit", n |-> n, field |-> "", fails |-> fails]
InjOpt(n, field, fails) == [src |-> "inj", n |-> n, field |-> field, fails |-> fails]

\* the *http.Client under construction: the configuration it was built
\* from and the options that modified it, in order
NilClient == [nil |-> TRUE, Timeout |-> 0, applied |-> <<>>]
MkClient(cfg) == [nil |-> FALSE, Timeout |-> cfg.Timeout, applied |-> <<>>]

\* reflect.Value of a struct field or of a constructor argument
FuncV(o) == [kind |-> "func", type |-> "COption", opt |-> o, str |-> "", fields |-> <<>>, ro |-> FALSE]
StringV(s) == [kind |-> "string", type |-> "string", opt |-> NilOpt, str |-> s, fields |-> <<>>, ro |-> FALSE]
StructV(t, fs) == [kind |-> "struct", type |-> t, opt |-> NilOpt, str |-> "", fields |-> fs, ro |-> FALSE]
PtrV(t, pointee) == [kind |-> "ptr", type |-> t, opt |-> NilOpt, str |-> "", fields |-> pointee, ro |-> FALSE]
InvalidV == [kind |-> "invalid", type |-> "", opt |-> NilOpt, str |-> "", fields |-> <<>>, ro |-> FALSE]
ReadOnly(v) == [v EXCEPT !.ro = TRUE]

\* reflect.StructField
Field(name, pkg, anon, type, optional) ==
    [Name |-> name, PkgPath |-> pkg, Anonymous |-> anon, Type |-> type, Optional |-> optional,
     TagName |-> "", Group |-> ""]
\* a field declared with a name:"..." or a group:"..." tag
Named(f, n) == [f EXCEPT !.TagName = n]
Grouped(f, g) == [f EXCEPT !.Group = g]

\* the struct types of the model: fx.In itself, two fx.In parameter
\* blocks and a plain struct embedded in one of them
StructTypes ==
    [In  |-> << Field("_", "dig", FALSE, "sentinel", "") >>,
     Emb |-> << Field("P", "", FALSE, "COption", ""),
                Field("q", "arrangehttp", FALSE, "COption", "") >>,
     InA |-> << Field("In", "", TRUE, "In", ""),
                Field("O1", "", FALSE, "COption", ""),
                Field("S", "", FALSE, "string", ""),
                Field("O2", "", FALSE, "COption", "true") >>,
     InB |-> << Field("In", "", TRUE, "In", ""),
                Field("Emb", "", TRUE, "Emb", ""),
                Field("O3", "", FALSE, "COption", "") >>,
     \* the struct types walked by direct calls of VisitFields
     W   |-> << Field("E1", "", TRUE, "E1", ""),
                Field("A", "", FALSE, "string", ""),
                Field("n", "arrange", FALSE, "string", ""),
                Field("N", "", FALSE, "Inner", ""),
                Field("E2", "", TRUE, "E2", ""),
                Field("hid", "arrange", TRUE, "hid", ""),
                Field("Z", "", FALSE, "string", "") >>,
     E1  |-> << Field("B", "", FALSE, "string", ""),
                Field("EE", "", TRUE, "EE", ""),
                Field("c", "arrange", FALSE, "string", "") >>,
     EE  |-> << Field("D", "", FALSE, "string", "") >>,
     E2  |-> << Field("F", "", FALSE, "string", "") >>,
     Inner |-> << Field("G", "", FALSE, "string", "") >>,
     hid |-> << Field("H", "", FALSE, "string", "") >>,
     \* a struct that embeds a pointer: struct { E2; *Inner; Y string }
     WP  |-> << Field("E2", "", TRUE, "E2", ""),
                Field("Inner", "", TRUE, "*Inner", ""),
                Field("Y", "", FALSE, "string", "") >>,
     \* the fx.In structs passed to direct calls of VisitDependencies: DA
     \* nests DB and DD, DB nests DC, DD nests DE
     Out |-> << Field("_", "dig", FALSE, "sentinel", "") >>,
     DA  |-> << Field("In", "", TRUE, "In", ""),
                Named(Field("X", "", FALSE, "string", ""), "x"),
                Field("u", "arrange", FALSE, "string", ""),
                Field("Nest1", "", FALSE, "DB", ""),
                Field("Y", "", FALSE, "string", "true"),
                Field("Nest2", "", FALSE, "DD", ""),
                Field("E2", "", TRUE, "E2", "") >>,
     DB  |-> << Field("In", "", TRUE, "In", ""),
                Grouped(Field("P", "", FALSE, "string", ""), "g"),
                Field("Nest", "", FALSE, "DC", ""),
                Field("Q", "", FALSE, "string", "") >>,
     DC  |-> << Field("In", "", TRUE, "In", ""),
                Field("Out", "", FALSE, "Out", ""),
                Field("R", "", FALSE, "string", "") >>,
     DD  |-> << Field("In", "", TRUE, "In", ""),
                Field("Nest", "", FALSE, "DE", ""),
                Field("S", "", FALSE, "string", "") >>,
     DE  |-> << Field("In", "", TRUE, "In", ""),
                Field("T", "", FALSE, "string", "") >>]

InTypes == {"InA", "InB"}

\* the fx.In structs of direct calls of VisitDependencies
DepInTypes == {"DA", "DB", "DC", "DD", "DE"}

InV == StructV("In", << ReadOnly(StructV("sentinel", <<>>)) >>)
OutV == StructV("Out", << ReadOnly(StructV("sentinel", <<>>)) >>)

\* the values the container can inject for parameter n of each type; a
\* field that is not optional always holds a value
InjectedValues(t, n) ==
    IF t = "InA"
    THEN { StructV("InA", << InV, FuncV(InjOpt(n, "O1", f1)), StringV("s"), o2 >>) :
             f1 \in BOOLEAN, o2 \in { FuncV(NilOpt), FuncV(InjOpt(n, "O2", FALSE)) } }
           \ { StructV("InA", << InV, FuncV(InjOpt(n, "O1", TRUE)), StringV("s"), FuncV(NilOpt) >>) }
    ELSE { StructV("InB", << InV,
                             StructV("Emb", << FuncV(InjOpt(n, "P", fp)),
                                               ReadOnly(FuncV(InjOpt(n, "q", TRUE))) >>),
                             FuncV(InjOpt(n, "O3", FALSE)) >>) :
             fp \in BOOLEAN }

\* ------------------------------------------------------- package arrange
VisitContinue == 0
VisitSkip == 1
VisitTerminate == 2

\* reflect.Value.IsZero
RECURSIVE IsZero(_)
IsZero(v) ==
    CASE v.kind = "func" -> v.opt = NilOpt
      [] v.kind = "string" -> v.str = ""
      [] v.kind = "ptr" -> v.fields = <<>>
      [] v.kind = "struct" -> \A i \in 1 .. Len(v.fields) : IsZero(v.fields[i])
      [] OTHER -> TRUE

IsValid(v) == v.kind # "invalid"
CanInterface(v) == ~v.ro

\* IsDependency that reads the optional tag as strconv.ParseBool does
IsDependencyParsesTag(f, fv) ==
    /\ IsValid(fv)
    /\ CanInterface(fv)
    /\ ~f.Anonymous
    /\ f.PkgPath = ""
    /\ ~(IsZero(fv) /\ f.Optional \in {"1", "t", "T", "TRUE", "true", "True"})

IsDependency(f, fv) ==
    /\ IsValid(fv)
    /\ CanInterface(fv)
    /\ ~f.Anonymous
    /\ f.PkgPath = ""
    /\ ~(IsZero(fv) /\ f.Optional = "true")

\* NewCOption succeeds exactly for the values convertible to a COption
NewCOptionOk(v) == v.kind = "func"
NewCOption(v) == IF NewCOptionOk(v) THEN [co |-> v.opt, err |-> NoErr]
                 ELSE [co |-> NilOpt, err |-> UnsupportedErr]

\* arrange.IsIn: a struct that embeds fx.In
IsIn(v) == v.kind = "struct" /\ v.type \in InTypes

\* The visitor closures of the model.  "newClient" is the closure of
\* C.newClient: it collects a COption for every field that is a dependency
\* and converts, and always continues.  A "policy" visitor is a caller's
\* FieldVisitor: it records the field it is called for and returns the
\* VisitResult its table holds for that field.
NewClientVisitor == [kind |-> "newClient"]
PolicyVisitor(result) == [kind |-> "policy", result |-> result]

CallVisitor(vis, acc, f, fv) ==
    IF vis.kind = "newClient"
    THEN IF IsDependency(f, fv) /\ NewCOptionOk(fv)
         THEN [acc |-> Append(acc, NewCOption(fv).co), r |-> VisitContinue]
         ELSE [acc |-> acc, r |-> VisitContinue]
    ELSE [acc |-> Append(acc, [field |-> f.Name, r |-> vis.result[f.Name]]),
          r |-> vis.result[f.Name]]

\* the loop over the fields that goes on with the stack after VisitTerminate
RECURSIVE VisitStructTerminateBreaks(_, _, _, _, _)
VisitStructTerminateBreaks(s, i, stack, acc, vis) ==
    IF s.kind # "struct"
    THEN [acc |-> acc, stack |-> stack, term |-> FALSE, panic |-> TRUE]
    ELSE IF i > Len(StructTypes[s.type])
    THEN [acc |-> acc, stack |-> stack, term |-> FALSE, panic |-> FALSE]
    ELSE LET f == StructTypes[s.type][i] IN
         IF f.PkgPath # ""
         THEN VisitStructTerminateBreaks(s, i + 1, stack, acc, vis)
         ELSE LET fv == s.fields[i]
                  c == CallVisitor(vis, acc, f, fv)
              IN  IF c.r = VisitTerminate
                  THEN [acc |-> c.acc, stack |-> stack, term |-> FALSE, panic |-> FALSE]
                  ELSE IF f.Anonymous /\ c.r # VisitSkip
                  THEN VisitStructTerminateBreaks(s, i + 1, Append(stack, fv), c.acc, vis)
                  ELSE VisitStructTerminateBreaks(s, i + 1, stack, c.acc, vis)

\* the loop over the fields that pushes an embedded field whatever the
\* visitor returned
RECURSIVE VisitStructIgnoresSkip(_, _, _, _, _)
VisitStructIgnoresSkip(s, i, stack, acc, vis) ==
    IF s.kind # "struct"
    THEN [acc |-> acc, stack |-> stack, term |-> FALSE, panic |-> TRUE]
    ELSE IF i > Len(StructTypes[s.type])
    THEN [acc |-> acc, stack |-> stack, term |-> FALSE, panic |-> FALSE]
    ELSE LET f == StructTypes[s.type][i] IN
         IF f.PkgPath # ""
         THEN VisitStructIgnoresSkip(s, i + 1, stack, acc, vis)
         ELSE LET fv == s.fields[i]
                  c == CallVisitor(vis, acc, f, fv)
              IN  IF c.r = VisitTerminate
                  THEN [acc |-> c.acc, stack |-> stack, term |-> TRUE, panic |-> FALSE]
                  ELSE IF f.Anonymous
                  THEN VisitStructIgnoresSkip(s, i + 1, Append(stack, fv), c.acc, vis)
                  ELSE VisitStructIgnoresSkip(s, i + 1, stack, c.acc, vis)

\* the loop over the fields of the value s popped from the stack;
\* s.Type().NumField() panics when s is not a struct
RECURSIVE VisitStruct(_, _, _, _, _)
VisitStruct(s, i, stack, acc, vis) ==
    IF s.kind # "struct"
    THEN [acc |-> acc, stack |-> stack, term |-> FALSE, panic |-> TRUE]
    ELSE IF i > Len(StructTypes[s.type])
    THEN [acc |-> acc, stack |-> stack, term |-> FALSE, panic |-> FALSE]
    ELSE LET f == StructTypes[s.type][i] IN
         IF f.PkgPath # ""
         THEN VisitStruct(s, i + 1, stack, acc, vis)
         ELSE LET fv == s.fields[i]
                  c == CallVisitor(vis, acc, f, fv)
              IN  IF c.r = VisitTerminate
                  THEN [acc |-> c.acc, stack |-> stack, term |-> TRUE, panic |-> FALSE]
                  ELSE IF f.Anonymous /\ c.r # VisitSkip
                  THEN VisitStruct(s, i + 1, Append(stack, fv), c.acc, vis)
                  ELSE VisitStruct(s, i + 1, stack, c.acc, vis)

\* dereference as much as needed
RECURSIVE Deref(_)
Deref(rv) ==
    IF rv.kind = "ptr"
    THEN IF rv.fields = <<>> THEN InvalidV ELSE Deref(rv.fields[1])
    ELSE rv

\* the loop over the traversal stack: r is the outcome of the loop over
\* the fields of the value popped last
RECURSIVE VisitStack(_, _, _)
VisitNext(r, vis) ==
    IF r.panic THEN [acc |-> r.acc, panic |-> TRUE]
    ELSE IF r.term THEN [acc |-> r.acc, panic |-> FALSE]
    ELSE VisitStack(r.stack, r.acc, vis)

VisitStack(stack, acc, vis) ==
    IF stack = <<>> THEN [acc |-> acc, panic |-> FALSE]
    ELSE VisitNext(VisitStruct(stack[Len(stack)], 1, SubSeq(stack, 1, Len(stack) - 1),
                               acc, vis), vis)

\* the return of VisitFields after the walk w from the struct rv; a walk
\* that panicked returns nothing
VisitReturn(rv, w) ==
    [rv |-> IF w.panic THEN InvalidV ELSE rv, acc |-> w.acc, panic |-> w.panic]

\* VisitFields from the dereferenced root
VisitFrom(rv, acc, vis) ==
    IF rv.kind # "struct"
    THEN [rv |-> InvalidV, acc |-> acc, panic |-> FALSE]
    ELSE VisitReturn(rv, VisitStack(<< rv >>, acc, vis))

\* VisitFields: acc is what the visitor has accumulated, rv the result;
\* panic: the call panicked and returned nothing
VisitFields(root, acc, vis) == VisitFrom(Deref(root), acc, vis)

\* dig.IsIn of a reflect.Type: a struct type that embeds fx.In
DigIsIn(t) == t \in InTypes \cup DepInTypes

\* strconv.ParseBool, the error ignored
ParseBool(str) == str \in {"1", "t", "T", "TRUE", "true", "True"}

\* Dependency; Tag is the struct tag as its name, group and optional keys
NakedDependency(dv) ==
    [Name |-> "", Group |-> "", Optional |-> FALSE,
     Tag |-> [name |-> "", group |-> "", optional |-> ""], Container |-> "", Value |-> dv]

\* newFieldDependency that takes the name of the field for Name
newFieldDependencyFieldName(c, f, fv) ==
    [Name |-> f.Name, Group |-> f.Group, Optional |-> ParseBool(f.Optional),
     Tag |-> [name |-> f.TagName, group |-> f.Group, optional |-> f.Optional],
     Container |-> c, Value |-> fv]

newFieldDependency(c, f, fv) ==
    [Name |-> f.TagName, Group |-> f.Group, Optional |-> ParseBool(f.Optional),
     Tag |-> [name |-> f.TagName, group |-> f.Group, optional |-> f.Optional],
     Container |-> c, Value |-> fv]

\* Injected that looks at the value only
DependencyInjectedNonZero(d) == ~IsZero(d.Value)

\* Dependency.Injected
DependencyInjected(d) == ~d.Optional \/ ~IsZero(d.Value)

\* a DependencyVisitor: it records the Dependency it is called with and
\* returns false for the dependencies whose Value is in its stop set
DependencyVisitor(stop) == [kind |-> "dependency", stop |-> stop]

CallDependencyVisitor(vis, acc, d) ==
    [acc |-> Append(acc, [dep |-> d, r |-> d.Value \notin vis.stop]),
     r |-> d.Value \notin vis.stop]

\* the loop over the fields of the container popped from the stack; halt:
\* the visitor returned false
RECURSIVE VisitContainer(_, _, _, _, _)
VisitContainer(container, i, stack, acc, vis) ==
    IF i > Len(StructTypes[container.type])
    THEN [acc |-> acc, stack |-> stack, halt |-> FALSE]
    ELSE LET field == StructTypes[container.type][i]
             fieldValue == container.fields[i]
         IN  IF \/ field.PkgPath # ""
                \/ ~IsValid(fieldValue)
                \/ ~CanInterface(fieldValue)
                \/ field.Type = "In"
                \/ field.Type = "Out"
             THEN VisitContainer(container, i + 1, stack, acc, vis)
             ELSE IF DigIsIn(field.Type)
             THEN VisitContainer(container, i + 1, Append(stack, fieldValue), acc, vis)
             ELSE LET c == CallDependencyVisitor(
                               vis, acc, newFieldDependency(container.type, field, fieldValue))
                  IN  IF ~c.r
                      THEN [acc |-> c.acc, stack |-> stack, halt |-> TRUE]
                      ELSE VisitContainer(container, i + 1, stack, c.acc, vis)

\* the loop over the stack that takes the container pushed first
RECURSIVE VisitContainersFifo(_, _, _)
VisitContainersFifo(stack, acc, vis) ==
    IF stack = <<>> THEN [acc |-> acc, halt |-> FALSE]
    ELSE LET r == VisitContainer(stack[1], 1, Tail(stack), acc, vis)
         IN  IF r.halt THEN [acc |-> r.acc, halt |-> TRUE]
             ELSE VisitContainersFifo(r.stack, r.acc, vis)

\* the loop over the stack of containers
RECURSIVE VisitContainers(_, _, _)
VisitContainers(stack, acc, vis) ==
    IF stack = <<>> THEN [acc |-> acc, halt |-> FALSE]
    ELSE LET end == Len(stack)
             r == VisitContainer(stack[end], 1, SubSeq(stack, 1, end - 1), acc, vis)
         IN  IF r.halt THEN [acc |-> r.acc, halt |-> TRUE]
             ELSE VisitContainers(r.stack, r.acc, vis)

\* the loop over deps that goes on with the next value after a false
RECURSIVE VisitDepsNextInput(_, _, _, _)
VisitDepsNextInput(deps, k, acc, vis) ==
    IF k > Len(deps) THEN acc
    ELSE LET dv == deps[k] IN
         IF DigIsIn(dv.type)
         THEN VisitDepsNextInput(deps, k + 1, VisitContainers(<< dv >>, acc, vis).acc, vis)
         ELSE VisitDepsNextInput(deps, k + 1,
                                 CallDependencyVisitor(vis, acc, NakedDependency(dv)).acc, vis)

\* the loop over deps
RECURSIVE VisitDeps(_, _, _, _)
VisitDeps(deps, k, acc, vis) ==
    IF k > Len(deps) THEN acc
    ELSE LET dv == deps[k] IN
         IF DigIsIn(dv.type)
         THEN LET r == VisitContainers(<< dv >>, acc, vis) IN
              IF r.halt THEN r.acc ELSE VisitDeps(deps, k + 1, r.acc, vis)
         ELSE LET c == CallDependencyVisitor(vis, acc, NakedDependency(dv)) IN
              IF ~c.r THEN c.acc ELSE VisitDeps(deps, k + 1, c.acc, vis)

\* VisitDependencies: the calls of the visitor, in order
VisitDependencies(vis, deps) == VisitDeps(deps, 1, <<>>, vis)

\* ---- TryConvert(src, cases...)
\* reflect.Type of a candidate and of the parameter of a case: a scalar
\* type, a slice (unnamed when name is "") or an array of a scalar type
ScalarT(name) == [kind |-> "scalar", name |-> name, elem |-> "", len |-> 0]
SliceT(name, elem) == [kind |-> "slice", name |-> name, elem |-> elem, len |-> 0]
ArrayT(elem, n) == [kind |-> "array", name |-> "", elem |-> elem, len |-> n]
InvalidT == [kind |-> "invalid", name |-> "", elem |-> "", len |-> 0]

\* a candidate: its type and its elements (one for a scalar), each element
\* a pair of its type and what it holds
Val(type, elems) == [type |-> type, elems |-> elems]
\* reflect.ValueOf(nil)
NilSrc == Val(InvalidT, <<>>)

\* reflect.Type.ConvertibleTo between the scalar types: a type converts to
\* itself, F (func(*http.Client) error) and COption (a named type of that
\* func type) convert to each other, int converts to string
ScalarConvertibleTo(a, b) ==
    \/ a = b
    \/ {a, b} = {"F", "COption"}
    \/ a = "int" /\ b = "string"

\* reflect.Type.ConvertibleTo; go120: built with Go 1.20 or later, where a
\* slice converts to an array of the same element type
ConvertibleTo(from, to, go120) ==
    CASE from.kind = "scalar" /\ to.kind = "scalar" -> ScalarConvertibleTo(from.name, to.name)
      [] from.kind = "slice" /\ to.kind = "slice" -> from.elem = to.elem
      [] from.kind = "array" /\ to.kind = "array" -> from.elem = to.elem /\ from.len = to.len
      [] from.kind = "slice" /\ to.kind = "array" -> go120 /\ from.elem = to.elem
      [] OTHER -> FALSE

\* reflect.Value.Convert of one element to the scalar type named b
ConvertElem(x, b) == << b, x[2] >>

\* the elements left as they are
ConvertElemsKeep(elems, b) == elems

\* the loop that converts each element
ConvertElems(elems, b) == [i \in 1 .. Len(elems) |-> ConvertElem(elems[i], b)]

\* reflect.Value.Convert where ConvertibleTo holds; it panics for a slice
\* shorter than the array it is converted to
Convert(from, to) ==
    IF to.kind = "scalar"
    THEN [v |-> Val(to, << ConvertElem(from.elems[1], to.name) >>), panic |-> FALSE]
    ELSE IF from.type.kind = "slice" /\ to.kind = "array"
    THEN IF Len(from.elems) < to.len
         THEN [v |-> NilSrc, panic |-> TRUE]
         ELSE [v |-> Val(to, SubSeq(from.elems, 1, to.len)), panic |-> FALSE]
    ELSE [v |-> Val(to, from.elems), panic |-> FALSE]

\* the result of TryConvert: what it returned, whether it panicked, the
\* cases it called with their argument, the cases it considered
ConvResult(ret, panic, invoked, tried) ==
    [ret |-> ret, panic |-> panic, invoked |-> invoked, tried |-> tried]

\* the loop over the cases that goes on after a case was called
RECURSIVE TryCasesAll(_, _, _, _, _)
TryCasesAll(from, cases, i, go120, invoked) ==
    IF i > Len(cases)
    THEN ConvResult(invoked # <<>>, FALSE, invoked, [k \in 1 .. Len(cases) |-> k])
    ELSE LET to == cases[i]
             fromSequence == from.type.kind \in {"array", "slice"}
         IN  IF from.type.kind = "invalid"
             THEN ConvResult(FALSE, TRUE, invoked, [k \in 1 .. i |-> k])
             ELSE IF ConvertibleTo(from.type, to, go120)
             THEN IF Convert(from, to).panic
                  THEN ConvResult(FALSE, TRUE, invoked, [k \in 1 .. i |-> k])
                  ELSE TryCasesAll(from, cases, i + 1, go120,
                           Append(invoked, [case |-> i, arg |-> Convert(from, to).v]))
             ELSE IF fromSequence /\ to.kind = "slice"
                     /\ ScalarConvertibleTo(from.type.elem, to.elem)
             THEN TryCasesAll(from, cases, i + 1, go120,
                      Append(invoked, [case |-> i,
                                       arg |-> Val(to, ConvertElems(from.elems, to.elem))]))
             ELSE TryCasesAll(from, cases, i + 1, go120, invoked)

\* the loop over the cases; from.Type() panics for the nil candidate
RECURSIVE TryCases(_, _, _, _, _)
TryCases(from, cases, i, go120, invoked) ==
    IF i > Len(cases)
    THEN ConvResult(FALSE, FALSE, invoked, [k \in 1 .. Len(cases) |-> k])
    ELSE LET to == cases[i]
             fromSequence == from.type.kind \in {"array", "slice"}
         IN  IF from.type.kind = "invalid"
             THEN ConvResult(FALSE, TRUE, invoked, [k \in 1 .. i |-> k])
             ELSE IF ConvertibleTo(from.type, to, go120)
             THEN IF Convert(from, to).panic
                  THEN ConvResult(FALSE, TRUE, invoked, [k \in 1 .. i |-> k])
                  ELSE ConvResult(TRUE, FALSE,
                           Append(invoked, [case |-> i, arg |-> Convert(from, to).v]),
                           [k \in 1 .. i |-> k])
             ELSE IF fromSequence /\ to.kind = "slice"
                     /\ ScalarConvertibleTo(from.type.elem, to.elem)
             THEN ConvResult(TRUE, FALSE,
                      Append(invoked, [case |-> i,
                                       arg |-> Val(to, ConvertElems(from.elems, to.elem))]),
                      [k \in 1 .. i |-> k])
             ELSE TryCases(from, cases, i + 1, go120, invoked)

\* TryConvert with the parameter types of its cases
TryConvert(src, cases, go120) == TryCases(src, cases, 1, go120, <<>>)

\* ---- TryConvert(dst, src)
\* what TryConvert(dst, src) returned: the slice (its element type and its
\* elements) or nil, the flag, and whether it panicked instead
ConvToResult(ret, ok, panic) == [ret |-> ret, ok |-> ok, panic |-> panic]
NilResult == [elem |-> InvalidT, elems |-> <<>>]

\* reflect.MakeSlice(reflect.SliceOf(to), n, n) with its elements set
SliceOf(to, elems) == [elem |-> to, elems |-> elems]

\* TryConvert with one target type: the switch takes the array and slice
\* candidates first, and from.Type() of its last case panics for the nil
\* candidate
TryConvertTo(to, from, go120) ==
    IF from.type.kind \in {"array", "slice"}
    THEN IF ConvertibleTo(ScalarT(from.type.elem), to, go120)
         THEN ConvToResult(SliceOf(to, ConvertElems(from.elems, to.name)), TRUE, FALSE)
         ELSE ConvToResult(NilResult, FALSE, FALSE)
    ELSE IF from.type.kind = "invalid"
    THEN ConvToResult(NilResult, FALSE, TRUE)
    ELSE IF ConvertibleTo(from.type, to, go120)
    THEN ConvToResult(SliceOf(to, Convert(from, to).v.elems), TRUE, FALSE)
    ELSE ConvToResult(NilResult, FALSE, FALSE)

\* NewTarget on the heap h: UnmarshalTo is the address of newly allocated
\* storage, Component is that pointer (ptr) or the value it points to (elem)
NoTarget == [Component |-> "none", UnmarshalTo |-> 0]
ValueProto(cfg) == [kind |-> "value", addr |-> 0, val |-> cfg]
PtrProto(a) == [kind |-> "ptr", addr |-> a, val |-> ZeroConfig]
NilProto == PtrProto(0)

FreeAddrs(h) == { a \in Addrs : h[a] = Free }
NewAddr(h) == CHOOSE a \in FreeAddrs(h) : \A b \in FreeAddrs(h) : a <= b

\* NewTarget that hands out the storage of a non-nil pointer prototype
NewTargetAliased(h, p) ==
    LET a == NewAddr(h) IN
    IF p.kind = "ptr"
    THEN IF p.addr # 0
         THEN [heap |-> h, t |-> [Component |-> "ptr", UnmarshalTo |-> p.addr]]
         ELSE [heap |-> [h EXCEPT ![a] = ZeroConfig],
               t |-> [Component |-> "ptr", UnmarshalTo |-> a]]
    ELSE [heap |-> [h EXCEPT ![a] = p.val],
          t |-> [Component |-> "elem", UnmarshalTo |-> a]]

\* NewTarget that never copies the pointee of a pointer prototype
NewTargetNoCopy(h, p) ==
    LET a == NewAddr(h) IN
    IF p.kind = "ptr"
    THEN [heap |-> [h EXCEPT ![a] = ZeroConfig],
          t |-> [Component |-> "ptr", UnmarshalTo |-> a]]
    ELSE [heap |-> [h EXCEPT ![a] = p.val],
          t |-> [Component |-> "elem", UnmarshalTo |-> a]]

\* NewTarget whose Component for a value prototype is the prototype value
\* itself and not the storage UnmarshalTo points to
NewTargetComponentCopy(h, p) ==
    LET a == NewAddr(h) IN
    IF p.kind = "ptr"
    THEN [heap |-> [h EXCEPT ![a] = IF p.addr # 0 THEN h[p.addr] ELSE ZeroConfig],
          t |-> [Component |-> "ptr", UnmarshalTo |-> a]]
    ELSE [heap |-> [h EXCEPT ![a] = p.val],
          t |-> [Component |-> "copy", UnmarshalTo |-> a]]

NewTarget(h, p) ==
    LET a == NewAddr(h) IN
    IF p.kind = "ptr"
    THEN [heap |-> [h EXCEPT ![a] = IF p.addr # 0 THEN h[p.addr] ELSE ZeroConfig],
          t |-> [Component |-> "ptr", UnmarshalTo |-> a]]
    ELSE [heap |-> [h EXCEPT ![a] = p.val],
          t |-> [Component |-> "elem", UnmarshalTo |-> a]]

\* the struct seen through t.Component: the pointer UnmarshalTo itself
\* ("ptr") and UnmarshalTo.Elem() ("elem") refer to the storage of
\* UnmarshalTo; a value that is not taken from UnmarshalTo ("copy") keeps
\* what the prototype p held
ComponentValue(t, h, p) ==
    IF t.Component \in {"ptr", "elem"} THEN h[t.UnmarshalTo] ELSE p.val

\* ---------------------------------------------------------------- state
VARIABLES
    errs,          \* C.errs
    options,       \* C.options
    dependencies,  \* C.dependencies
    prototype,     \* C.prototype
    callables,     \* the functions returned by Unmarshal / UnmarshalKey
    heap,          \* the allocated configuration structs, by address
    inv,           \* the invocations of the synthesized constructors
    tgt,           \* the Target returned by a direct call of NewTarget
    walk,          \* a call of VisitFields, VisitDependencies or of a helper of theirs
    conv,          \* a call of TryConvert
    app            \* a call of an aggregate option, or of ServerOptions.Add

vars == << errs, options, dependencies, prototype, callables, heap, inv, tgt, walk, conv, app >>
builder == << errs, options, dependencies, prototype >>

\* the builder as the closure body sees it through the captured pointer c
C == [errs |-> errs, options |-> options,
      dependencies |-> dependencies, prototype |-> prototype]

\* no call of the reflection helpers in progress
NoWalk == [pc |-> "none"]
NoConv == [pc |-> "none"]
NoApp == [pc |-> "none"]

\* the address of the struct the caller's pointer prototype points to
UserAddr == CHOOSE a \in Addrs : \A b \in Addrs : a <= b

\* ------------------------------------------------------------- multierr
\* multierr.Combine: nil for no error, the error itself for one error
Combine(es) ==
    IF Len(es) = 0 THEN NoErr
    ELSE IF Len(es) = 1 THEN es[1]
    ELSE [kind |-> "multi", of |-> es]

\* multierr.Append: nil on either side is dropped, and the errors of an
\* aggregate are kept flat
Errors(e) == IF e.kind = "multi" THEN e.of ELSE << e >>
Append2(left, right) ==
    IF left = NoErr THEN right
    ELSE IF right = NoErr THEN left
    ELSE [kind |-> "multi", of |-> Errors(left) \o Errors(right)]

\* ----------------------------------------------------- aggregate options
\* An element of an aggregate: calling it on the target t is recorded, and
\* it returns its error or nil.
Elem(id, fails) == [id |-> id, fails |-> fails]
ElemErr(el) == IF el.fails THEN [kind |-> "option", of |-> << el.id >>] ELSE NoErr
CallElem(el, t, calls) == Append(calls, [id |-> el.id, target |-> t])

\* the outcome of an aggregate: the error returned, the calls made
Applied(err, calls) == [err |-> err, calls |-> calls]

\* Options.Apply that returns at the first error
RECURSIVE OptionsApplyStops(_, _, _, _)
OptionsApplyStops(o, t, k, r) ==
    IF k > Len(o) THEN r
    ELSE IF o[k].fails THEN Applied(ElemErr(o[k]), CallElem(o[k], t, r.calls))
    ELSE OptionsApplyStops(o, t, k + 1, Applied(r.err, CallElem(o[k], t, r.calls)))

\* Options[T].Apply: the loop from element k on
RECURSIVE OptionsApply(_, _, _, _)
OptionsApply(o, t, k, r) ==
    IF k > Len(o) THEN r
    ELSE OptionsApply(o, t, k + 1,
                      Applied(Append2(r.err, ElemErr(o[k])), CallElem(o[k], t, r.calls)))

\* ApplyOptions(t, opts...)
RECURSIVE ApplyOptions(_, _, _, _)
ApplyOptions(t, opts, k, r) ==
    IF k > Len(opts) THEN r
    ELSE ApplyOptions(t, opts, k + 1,
                      Applied(Append2(r.err, ElemErr(opts[k])), CallElem(opts[k], t, r.calls)))

\* ServerOptions.Apply
RECURSIVE ServerOptionsApply(_, _, _, _)
ServerOptionsApply(so, s, k, r) ==
    IF k > Len(so) THEN r
    ELSE ServerOptionsApply(so, s, k + 1,
                            Applied(Append2(r.err, ElemErr(so[k])), CallElem(so[k], s, r.calls)))

\* the closure of COptions that calls every option and combines the errors
RECURSIVE COptionsLoopAll(_, _, _, _)
COptionsLoopAll(cos, c, k, r) ==
    IF k > Len(cos) THEN r
    ELSE COptionsLoopAll(cos, c, k + 1,
             Applied(Append2(r.err, ElemErr(cos[k])), CallElem(cos[k], c, r.calls)))

\* the closure COptions returns: err is the error of the option called last
RECURSIVE COptionsLoop(_, _, _, _)
COptionsLoop(cos, c, k, r) ==
    IF k > Len(cos) THEN r
    ELSE LET err == ElemErr(cos[k])
             calls == CallElem(cos[k], c, r.calls)
         IN  IF err # NoErr THEN Applied(err, calls)
             ELSE COptionsLoop(cos, c, k + 1, Applied(err, calls))

\* COptions(cos...)(c): a single option is returned as it is
COptions(cos, c) ==
    IF Len(cos) = 1
    THEN Applied(ElemErr(cos[1]), CallElem(cos[1], c, <<>>))
    ELSE COptionsLoop(cos, c, 1, Applied(NoErr, <<>>))

\* ClientOptions(cos...)(c) and ServerOptions(cos...)(s), the
\* aggregates of the tests: they stop at the first error
RECURSIVE TestedOptions(_, _, _, _)
TestedOptions(cos, t, k, r) ==
    IF k > Len(cos) THEN r
    ELSE IF cos[k].fails
    THEN Applied(ElemErr(cos[k]), CallElem(cos[k], t, r.calls))
    ELSE TestedOptions(cos, t, k + 1, Applied(NoErr, CallElem(cos[k], t, r.calls)))

\* ---------------------------------------------------------- AsServerOption
\* The dynamic types of the values passed to AsServerOption: whether the
\* method set has Apply(*http.Server) error or Apply(*http.Server), and
\* the underlying type.  Option and OptionNoError are types of a caller
\* with those methods; MyFunc and MyFuncNoError are named function types
\* without methods.
ServerTypes ==
    [ServerOptionFunc |-> [apply |-> "error", underlying |-> "func(*http.Server) error"],
     Option |-> [apply |-> "error", underlying |-> "struct"],
     OptionNoError |-> [apply |-> "noerror", underlying |-> "struct"],
     FuncError |-> [apply |-> "", underlying |-> "func(*http.Server) error"],
     Func |-> [apply |-> "", underlying |-> "func(*http.Server)"],
     MyFunc |-> [apply |-> "", underlying |-> "func(*http.Server) error"],
     MyFuncNoError |-> [apply |-> "", underlying |-> "func(*http.Server)"],
     string |-> [apply |-> "", underlying |-> "string"],
     nil |-> [apply |-> "", underlying |-> ""]]

\* the unnamed function types: the only types identical to the type of a
\* type assertion v.(func(*http.Server) error) or v.(func(*http.Server))
IsUnnamed(t) == t \in {"FuncError", "Func"}

\* a value: its dynamic type, and whether calling it returns an error
ServerValue(t, id, fails) == [type |-> t, id |-> id, fails |-> fails]

\* the ServerOption AsServerOption returns: the value itself, a
\* ServerOptionFunc around it, or a ServerOptionFunc that returns the
\* InvalidServerOptionTypeError
ServerOpt(how, v) == [how |-> how, v |-> v]

AsServerOption(v) ==
    IF ServerTypes[v.type].apply = "error" THEN ServerOpt("self", v)
    ELSE IF ServerTypes[v.type].apply = "noerror" THEN ServerOpt("noerror", v)
    ELSE IF IsUnnamed(v.type) /\ ServerTypes[v.type].underlying = "func(*http.Server) error"
    THEN ServerOpt("func error", v)
    ELSE IF IsUnnamed(v.type) /\ ServerTypes[v.type].underlying = "func(*http.Server)"
    THEN ServerOpt("func", v)
    ELSE ServerOpt("invalid", v)

InvalidServerOptionTypeError(t) ==
    [kind |-> "cannot be converted to a ServerOption", of |-> << t >>]

\* so.Apply(s) for an option AsServerOption returned: whether the value
\* was called, and the error
ServerOptApply(so) ==
    CASE so.how = "invalid" ->
            [called |-> FALSE, err |-> InvalidServerOptionTypeError(so.v.type)]
      [] so.how \in {"self", "func error"} ->
            [called |-> TRUE,
             err |-> IF so.v.fails THEN [kind |-> "option", of |-> << so.v.id >>] ELSE NoErr]
      [] OTHER -> [called |-> TRUE, err |-> NoErr]

\* ServerOptions.Add: the loop from argument k on
RECURSIVE Add(_, _, _)
Add(so, opts, k) ==
    IF k > Len(opts) THEN so
    ELSE Add(Append(so, AsServerOption(opts[k])), opts, k + 1)

\* ------------------------------------------- the synthesized constructor
\* what the collaborators do in one invocation: the decoder leaves the
\* target alone, sets a field, or fails; NewClient succeeds or fails
DecodeOutcomes == {"keep", "set", "err"}
FactoryOutcomes == {"ok", "err"}
Envs == { e \in [decode : DecodeOutcomes, factory : FactoryOutcomes] :
            e.decode # "keep" => e.factory = "ok" }

IdleInv ==
    [pc |-> "idle", fn |-> 0, inputs |-> <<>>,
     env |-> [decode |-> "keep", factory |-> "ok"],
     target |-> NoTarget, client |-> NilClient, opts |-> <<>>, i |-> 0,
     applied |-> <<>>, decodeCalls |-> 0, factoryCalls |-> 0, walked |-> FALSE,
     ret |-> [client |-> NilClient, err |-> NoErr]]

\* the function returns: its results are set, its Target becomes garbage
Return(r, c, h, client, err) ==
    [inv |-> [r EXCEPT !.pc = "done", !.ret = [client |-> client, err |-> err]],
     heap |-> IF r.target = NoTarget THEN h
              ELSE [h EXCEPT ![r.target.UnmarshalTo] = Free],
     c |-> c]

\* the closure without the test of c.errs
BodyNoErrsCheck(r, c, h) ==
    LET nt == NewTarget(h, c.prototype) IN
    [inv |-> [r EXCEPT !.pc = "decode", !.target = nt.t], heap |-> nt.heap, c |-> c]

\* the closure of Unmarshal / UnmarshalKey up to the call of the decoder
Body(r, c, h) ==
    IF Len(c.errs) > 0
    THEN Return(r, c, h, NilClient, Combine(c.errs))
    ELSE LET nt == NewTarget(h, c.prototype) IN
         [inv |-> [r EXCEPT !.pc = "decode", !.target = nt.t], heap |-> nt.heap, c |-> c]

\* the decode step that goes on to newClient after a decode error
DecodeIgnoresErr(r, c, h) ==
    LET a == r.target.UnmarshalTo
        r1 == [r EXCEPT !.decodeCalls = @ + 1]
    IN  CASE r.env.decode = "set" ->
                [inv |-> [r1 EXCEPT !.pc = "newClient"],
                 heap |-> [h EXCEPT ![a].Timeout = MaxVal],
                 c |-> c]
          [] OTHER -> [inv |-> [r1 EXCEPT !.pc = "newClient"], heap |-> h, c |-> c]

\* in.Viper.Unmarshal(target.UnmarshalTo(), ...) and the test of its error
Decode(r, c, h) ==
    LET a == r.target.UnmarshalTo
        r1 == [r EXCEPT !.decodeCalls = @ + 1]
    IN  CASE r.env.decode = "err" -> Return(r1, c, h, NilClient, DecodeErr)
          [] r.env.decode = "set" ->
                [inv |-> [r1 EXCEPT !.pc = "newClient"],
                 heap |-> [h EXCEPT ![a].Timeout = MaxVal],
                 c |-> c]
          [] OTHER -> [inv |-> [r1 EXCEPT !.pc = "newClient"], heap |-> h, c |-> c]

\* the options found in the fields of the dependencies
RECURSIVE Injected(_, _, _)
Injected(deps, k, acc) ==
    IF k > Len(deps) THEN acc
    ELSE Injected(deps, k + 1, VisitFields(deps[k], acc, NewClientVisitor).acc)

\* the loop that returns the client together with the error of an option
ApplyLoopReturnsClient(r, c, h) ==
    IF r.i > Len(r.opts)
    THEN Return(r, c, h, r.client, NoErr)
    ELSE LET co == r.opts[r.i]
             r1 == [r EXCEPT !.applied = Append(@, co)]
             r2 == [r1 EXCEPT !.client.applied = Append(@, co), !.i = @ + 1]
         IN  IF co.fails
             THEN Return(r1, c, h, r1.client, OptionErr(co))
             ELSE IF r2.i > Len(r2.opts)
             THEN Return(r2, c, h, r2.client, NoErr)
             ELSE [inv |-> r2, heap |-> h, c |-> c]

\* the loop of newClient over options: the iteration at r.i, and the return
\* that follows the last one
ApplyLoop(r, c, h) ==
    IF r.i > Len(r.opts)
    THEN Return(r, c, h, r.client, NoErr)
    ELSE LET co == r.opts[r.i]
             r1 == [r EXCEPT !.applied = Append(@, co)]
             r2 == [r1 EXCEPT !.client.applied = Append(@, co), !.i = @ + 1]
         IN  IF co.fails
             THEN Return(r1, c, h, NilClient, OptionErr(co))
             ELSE IF r2.i > Len(r2.opts)
             THEN Return(r2, c, h, r2.client, NoErr)
             ELSE [inv |-> r2, heap |-> h, c |-> c]

\* newClient that puts the literal options before the injected ones
newClientLiteralFirst(r, c, h) ==
    LET f == h[r.target.UnmarshalTo]
        r1 == [r EXCEPT !.factoryCalls = @ + 1]
        r2 == [r1 EXCEPT !.client = MkClient(f), !.walked = TRUE,
                         !.opts = c.options \o Injected(r.inputs, 1, <<>>),
                         !.i = 1, !.pc = "apply"]
    IN  IF r.env.factory = "err"
        THEN Return(r1, c, h, NilClient, FactoryErr)
        ELSE IF r2.i > Len(r2.opts)
        THEN Return(r2, c, h, r2.client, NoErr)
        ELSE [inv |-> r2, heap |-> h, c |-> c]

\* newClient that goes on after NewClient returned an error
newClientIgnoresErr(r, c, h) ==
    LET f == h[r.target.UnmarshalTo]
        r1 == [r EXCEPT !.factoryCalls = @ + 1]
        r2 == [r1 EXCEPT !.client = MkClient(f), !.walked = TRUE,
                         !.opts = Injected(r.inputs, 1, <<>>) \o c.options,
                         !.i = 1, !.pc = "apply"]
    IN  IF r2.i > Len(r2.opts)
        THEN Return(r2, c, h, r2.client, NoErr)
        ELSE [inv |-> r2, heap |-> h, c |-> c]

\* newClient that appends the injected options to c.options
newClientAppendsToBuilder(r, c, h) ==
    LET f == h[r.target.UnmarshalTo]
        r1 == [r EXCEPT !.factoryCalls = @ + 1]
        r2 == [r1 EXCEPT !.client = MkClient(f), !.walked = TRUE,
                         !.opts = c.options \o Injected(r.inputs, 1, <<>>),
                         !.i = 1, !.pc = "apply"]
        c2 == [c EXCEPT !.options = r2.opts]
    IN  IF r.env.factory = "err"
        THEN Return(r1, c, h, NilClient, FactoryErr)
        ELSE IF r2.i > Len(r2.opts)
        THEN Return(r2, c2, h, r2.client, NoErr)
        ELSE [inv |-> r2, heap |-> h, c |-> c2]

\* newClient up to the loop over the options
newClient(r, c, h) ==
    LET f == h[r.target.UnmarshalTo]
        r1 == [r EXCEPT !.factoryCalls = @ + 1]
        r2 == [r1 EXCEPT !.client = MkClient(f), !.walked = TRUE,
                         !.opts = Injected(r.inputs, 1, <<>>) \o c.options,
                         !.i = 1, !.pc = "apply"]
    IN  IF r.env.factory = "err"
        THEN Return(r1, c, h, NilClient, FactoryErr)
        ELSE IF r2.i > Len(r2.opts)
        THEN Return(r2, c, h, r2.client, NoErr)
        ELSE [inv |-> r2, heap |-> h, c |-> c]

\* one step of an invocation
Step(r, c, h) ==
    CASE r.pc = "call" -> Body(r, c, h)
      [] r.pc = "decode" -> Decode(r, c, h)
      [] r.pc = "newClient" -> newClient(r, c, h)
      [] r.pc = "apply" -> ApplyLoop(r, c, h)
      [] OTHER -> [inv |-> r, heap |-> h, c |-> c]

\* a whole invocation, run without interruption
RECURSIVE Run(_, _, _)
Run(r, c, h) ==
    IF r.pc = "done" THEN [inv |-> r, heap |-> h, c |-> c]
    ELSE LET s == Step(r, c, h) IN Run(s.inv, s.c, s.heap)

\* a function type that lists every dependency type once
RECURSIVE Dedup(_)
Dedup(ts) ==
    IF ts = <<>> THEN <<>>
    ELSE LET rest == Dedup(SubSeq(ts, 1, Len(ts) - 1))
             t == ts[Len(ts)]
         IN  IF \E k \in 1 .. Len(rest) : rest[k] = t THEN rest ELSE Append(rest, t)

unmarshalFuncOfDedup(c) ==
    [in |-> << "ClientIn" >> \o Dedup(c.dependencies),
     out |-> << "*http.Client", "error" >>,
     variadic |-> FALSE]

\* the reflect.FuncOf type of the synthesized constructor
unmarshalFuncOf(c) ==
    [in |-> << "ClientIn" >> \o c.dependencies,
     out |-> << "*http.Client", "error" >>,
     variadic |-> FALSE]

\* the argument lists the container can pass to a function of type ft
RECURSIVE ArgLists(_, _)
ArgLists(ft, k) ==
    IF k > Len(ft.in) THEN { <<>> }
    ELSE { << v >> \o rest : v \in InjectedValues(ft.in[k], k - 1), rest \in ArgLists(ft, k + 1) }

\* a new invocation of callable fn
NewInv(fn, inputs, env) ==
    [IdleInv EXCEPT !.pc = "call", !.fn = fn, !.inputs = inputs, !.env = env]

\* ------------------------------------------------------ builder actions
\* the values passed to Use: a COption, an fx.In struct, anything else
UseValues ==
    { FuncV(LitOpt(Len(options) + 1, f)) : f \in BOOLEAN }
      \cup { StructV(t, <<>>) : t \in InTypes }
      \cup { StringV("unsupported type") }

\* The builder chain runs while the application is assembled; the container
\* invokes the constructors afterwards.
Accumulating == \A i \in Invs : inv[i].pc = "idle"

\* C.Use for one value
Use(o) ==
    /\ NewCOptionOk(o) => Len(options) < MaxOptions
    /\ (~NewCOptionOk(o) /\ IsIn(o)) => Len(dependencies) < MaxDeps
    /\ (~NewCOptionOk(o) /\ ~IsIn(o)) => Len(errs) < 2 * MaxBad
    /\ Accumulating
    /\ IF NewCOption(o).err = NoErr
       THEN /\ options' = Append(options, NewCOption(o).co)
            /\ UNCHANGED << dependencies, errs >>
       ELSE IF IsIn(o)
       THEN /\ dependencies' = Append(dependencies, o.type)
            /\ UNCHANGED << options, errs >>
       ELSE /\ errs' = errs \o << NewCOption(o).err, NotInErr >>
            /\ UNCHANGED << options, dependencies >>
    /\ UNCHANGED << prototype, callables, heap, inv, tgt, walk, conv, app >>

\* the prototypes a caller passes to ClientFactory
Prototypes ==
    { ValueProto(ZeroConfig), PtrProto(UserAddr), NilProto }

\* C.ClientFactory
ClientFactory(p) ==
    /\ p # prototype
    /\ Accumulating
    /\ prototype' = p
    /\ UNCHANGED << errs, options, dependencies, callables, heap, inv, tgt, walk, conv, app >>

\* C.Unmarshal: the constructor made by reflect.MakeFunc, of the type that
\* unmarshalFuncOf computes now; its closure reads the builder when invoked
Unmarshal ==
    /\ Len(callables) < MaxCallables
    /\ Accumulating
    /\ callables' = Append(callables, [type |-> unmarshalFuncOf(C)])
    /\ UNCHANGED << errs, options, dependencies, prototype, heap, inv, tgt, walk, conv, app >>

\* C.UnmarshalKey: the same constructor; the key only selects what the
\* decoder reads, and what the decoder does is env.decode
UnmarshalKey ==
    /\ Len(callables) < MaxCallables
    /\ Accumulating
    /\ callables' = Append(callables, [type |-> unmarshalFuncOf(C)])
    /\ UNCHANGED << errs, options, dependencies, prototype, heap, inv, tgt, walk, conv, app >>

\* what an invocation leaves in the builder it captured
SetC(c) ==
    /\ errs' = c.errs
    /\ options' = c.options
    /\ dependencies' = c.dependencies
    /\ prototype' = c.prototype

\* the container invokes a synthesized constructor, start to finish
Invoke ==
    /\ Accumulating
    /\ \E fn \in 1 .. Len(callables) :
       \E inputs \in ArgLists(callables[fn].type, 2) :
       \E env \in Envs :
         LET s == Run(NewInv(fn, inputs, env), C, heap) IN
         /\ inv' = [inv EXCEPT ![1] = s.inv]
         /\ heap' = s.heap
         /\ SetC(s.c)
    /\ UNCHANGED << callables, tgt, walk, conv, app >>

\* Client(): new(C).ClientFactory(ClientConfig{})
Init ==
    /\ errs = <<>>
    /\ options = <<>>
    /\ dependencies = <<>>
    /\ prototype = ValueProto(ZeroConfig)
    /\ callables = <<>>
    /\ heap = [a \in Addrs |-> IF a = UserAddr THEN [Timeout |-> 1, Retries |-> 1] ELSE Free]
    /\ inv = [i \in Invs |-> IdleInv]
    /\ tgt = NoTarget
    /\ walk = NoWalk
    /\ app = NoApp
    /\ conv = NoConv

Next ==
    \/ \E o \in UseValues : Use(o)
    \/ \E p \in Prototypes : ClientFactory(p)
    \/ Unmarshal
    \/ UnmarshalKey
    \/ Invoke

Spec == Init /\ [][Next]_vars

\* ------------------------------------------- concurrent invocations
\* builders as the chains Client(o...).ClientFactory(p).Use(...) leave them,
\* and the constructors synthesized from each
ConcBuilders ==
    { [errs |-> <<>>, options |-> << LitOpt(1, FALSE) >>,
       dependencies |-> <<>>, prototype |-> PtrProto(UserAddr), synthesized |-> 2],
      [errs |-> <<>>, options |-> << LitOpt(1, FALSE) >>,
       dependencies |-> << "InB" >>, prototype |-> ValueProto(ZeroConfig), synthesized |-> 1],
      [errs |-> << UnsupportedErr, NotInErr >>, options |-> << LitOpt(1, FALSE) >>,
       dependencies |-> <<>>, prototype |-> NilProto, synthesized |-> 1] }

InitHeap == [a \in Addrs |-> IF a = UserAddr THEN [Timeout |-> 1, Retries |-> 1] ELSE Free]

InitConc ==
    /\ \E b \in ConcBuilders :
         /\ errs = b.errs
         /\ options = b.options
         /\ dependencies = b.dependencies
         /\ prototype = b.prototype
         /\ callables = [k \in 1 .. b.synthesized |-> [type |-> unmarshalFuncOf(b)]]
    /\ heap = InitHeap
    /\ inv = [i \in Invs |-> IdleInv]
    /\ tgt = NoTarget
    /\ walk = NoWalk
    /\ app = NoApp
    /\ conv = NoConv

\* invocation i takes the step at pc
Advance(i, pc) ==
    /\ inv[i].pc = pc
    /\ LET s == Step(inv[i], C, heap) IN
         /\ inv' = [inv EXCEPT ![i] = s.inv]
         /\ heap' = s.heap
         /\ SetC(s.c)
    /\ UNCHANGED << callables, tgt, walk, conv, app >>

\* the container calls a constructor: the closure runs up to the decoder;
\* invocations are numbered in the order they start
Call(i) ==
    /\ inv[i].pc = "idle"
    /\ \A j \in 1 .. i - 1 : inv[j].pc # "idle"
    /\ \E fn \in 1 .. Len(callables) :
       \E inputs \in ArgLists(callables[fn].type, 2) :
       \E env \in Envs :
         LET s == Step(NewInv(fn, inputs, env), C, heap) IN
         /\ inv' = [inv EXCEPT ![i] = s.inv]
         /\ heap' = s.heap
         /\ SetC(s.c)
    /\ UNCHANGED << callables, tgt, walk, conv, app >>

DecodeStep(i) == Advance(i, "decode")
NewClientStep(i) == Advance(i, "newClient")
ApplyStep(i) == Advance(i, "apply")

NextConc ==
    \/ \E i \in Invs : Call(i)
    \/ \E i \in Invs : DecodeStep(i)
    \/ \E i \in Invs : NewClientStep(i)
    \/ \E i \in Invs : ApplyStep(i)

SpecConc == InitConc /\ [][NextConc]_vars

\* --------------------------------------------------- NewTarget directly
AllProtos == { ValueProto(cfg) : cfg \in ConfigVals } \cup { PtrProto(UserAddr), NilProto }

InitTarget ==
    /\ errs = <<>>
    /\ options = <<>>
    /\ dependencies = <<>>
    /\ prototype \in AllProtos
    /\ callables = <<>>
    /\ heap \in { [a \in Addrs |-> IF a = UserAddr THEN cfg ELSE Free] : cfg \in ConfigVals }
    /\ inv = [i \in Invs |-> IdleInv]
    /\ tgt = NoTarget
    /\ walk = NoWalk
    /\ app = NoApp
    /\ conv = NoConv

\* t := NewTarget(prototype)
CallNewTarget ==
    /\ tgt = NoTarget
    /\ LET nt == NewTarget(heap, prototype) IN
         /\ tgt' = nt.t
         /\ heap' = nt.heap
    /\ UNCHANGED << errs, options, dependencies, prototype, callables, inv, walk, conv, app >>

\* a write through t.UnmarshalTo, as a decoder does
WriteTimeout ==
    /\ tgt # NoTarget
    /\ \E v \in 0 .. MaxVal : heap' = [heap EXCEPT ![tgt.UnmarshalTo].Timeout = v]
    /\ UNCHANGED << errs, options, dependencies, prototype, callables, inv, tgt, walk, conv, app >>

WriteRetries ==
    /\ tgt # NoTarget
    /\ \E v \in 0 .. MaxVal : heap' = [heap EXCEPT ![tgt.UnmarshalTo].Retries = v]
    /\ UNCHANGED << errs, options, dependencies, prototype, callables, inv, tgt, walk, conv, app >>

\* the Target goes out of scope
DropTarget ==
    /\ tgt # NoTarget
    /\ heap' = [heap EXCEPT ![tgt.UnmarshalTo] = Free]
    /\ tgt' = NoTarget
    /\ UNCHANGED << errs, options, dependencies, prototype, callables, inv, walk, conv, app >>

NextTarget ==
    \/ CallNewTarget
    \/ WriteTimeout
    \/ WriteRetries
    \/ DropTarget

SpecTarget == InitTarget /\ [][NextTarget]_vars

\* ------------------------------------------------- VisitFields directly
MaxPtr == 2      \* levels of pointer in front of a root
MaxSpecial == 2  \* fields a visitor answers with VisitSkip or VisitTerminate

EEV == StructV("EE", << StringV("d") >>)
E1V == StructV("E1", << StringV("b"), EEV, ReadOnly(StringV("c")) >>)
E2V == StructV("E2", << StringV("f") >>)
InnerV == StructV("Inner", << StringV("g") >>)
HidV == ReadOnly(StructV("hid", << ReadOnly(StringV("h")) >>))
WV == StructV("W", << E1V, StringV("a"), ReadOnly(StringV("n")), InnerV, E2V, HidV,
                      StringV("z") >>)
WPV(p) == StructV("WP", << E2V, p, StringV("y") >>)

\* k pointers in front of v
RECURSIVE Wrap(_, _)
Wrap(v, k) == IF k = 0 THEN v ELSE PtrV("*", << Wrap(v, k - 1) >>)

\* the roots passed to VisitFields: structs, a string, a nil pointer, each
\* behind 0 .. MaxPtr pointers, and the nil interface
VisitBases ==
    { WV, WPV(PtrV("*Inner", << InnerV >>)), WPV(PtrV("*Inner", <<>>)),
      StringV("x"), PtrV("*W", <<>>) }

VisitRoots == { Wrap(b, k) : b \in VisitBases, k \in 0 .. MaxPtr } \cup { InvalidV }

WalkTypes == {"W", "E1", "EE", "E2", "Inner", "hid", "WP"}
WalkNames ==
    UNION { { StructTypes[t][i].Name : i \in 1 .. Len(StructTypes[t]) } : t \in WalkTypes }

\* the visitors: a table from field to VisitResult with at most MaxSpecial
\* entries other than VisitContinue
Visitors ==
    UNION { { PolicyVisitor([n \in WalkNames |-> IF n \in S THEN g[n] ELSE VisitContinue]) :
                g \in [S -> {VisitSkip, VisitTerminate}] } :
            S \in { T \in SUBSET WalkNames : Cardinality(T) <= MaxSpecial } }

InitVisit ==
    /\ errs = <<>>
    /\ options = <<>>
    /\ dependencies = <<>>
    /\ prototype = ValueProto(ZeroConfig)
    /\ callables = <<>>
    /\ heap = InitHeap
    /\ inv = [i \in Invs |-> IdleInv]
    /\ tgt = NoTarget
    /\ walk \in [pc : {"call"}, root : VisitRoots, vis : Visitors,
                 rv : {InvalidV}, calls : { <<>> }, panic : {FALSE}]
    /\ app = NoApp
    /\ conv = NoConv

\* rv := VisitFields(root, v)
CallVisitFields ==
    /\ walk.pc = "call"
    /\ LET r == VisitFields(walk.root, <<>>, walk.vis) IN
         walk' = [walk EXCEPT !.pc = IF r.panic THEN "panic" ELSE "done",
                              !.rv = r.rv, !.calls = r.acc, !.panic = r.panic]
    /\ UNCHANGED << errs, options, dependencies, prototype, callables, heap, inv, tgt, conv, app >>

NextVisit == CallVisitFields

SpecVisit == InitVisit /\ [][NextVisit]_vars

\* ------------------------------------------- VisitDependencies directly
MaxInputs == 2   \* values passed to one call of VisitDependencies

DEV == StructV("DE", << InV, StringV("t") >>)
DDV == StructV("DD", << InV, DEV, StringV("s") >>)
DCV == StructV("DC", << InV, OutV, StringV("r") >>)
DBV == StructV("DB", << InV, StringV("p"), DCV, StringV("q") >>)
\* Y is optional and was not injected
DAV == StructV("DA", << InV, StringV("x"), ReadOnly(StringV("u")), DBV, StringV(""), DDV,
                        E2V >>)

\* the values passed to VisitDependencies: fx.In structs, a string, a
\* struct that does not embed fx.In and a pointer to an fx.In struct
DepValues == { DAV, DCV, StringV("k"), E2V, PtrV("*DA", << DAV >>) }

DepInputs == UNION { [1 .. n -> DepValues] : n \in 0 .. MaxInputs }

\* the values a visitor can be called with
LeafValues ==
    DepValues \cup { StringV(str) : str \in {"x", "", "p", "q", "r", "s", "t"} }

\* the visitors: false for at most MaxSpecial values
DependencyVisitors ==
    { DependencyVisitor(S) : S \in { T \in SUBSET LeafValues : Cardinality(T) <= MaxSpecial } }

InitDeps ==
    /\ errs = <<>>
    /\ options = <<>>
    /\ dependencies = <<>>
    /\ prototype = ValueProto(ZeroConfig)
    /\ callables = <<>>
    /\ heap = InitHeap
    /\ inv = [i \in Invs |-> IdleInv]
    /\ tgt = NoTarget
    /\ walk \in [pc : {"call"}, deps : DepInputs, vis : DependencyVisitors, calls : { <<>> }]
    /\ app = NoApp
    /\ conv = NoConv

\* VisitDependencies(visitor, deps...)
CallVisitDependencies ==
    /\ walk.pc = "call"
    /\ walk' = [walk EXCEPT !.pc = "done", !.calls = VisitDependencies(walk.vis, walk.deps)]
    /\ UNCHANGED << errs, options, dependencies, prototype, callables, heap, inv, tgt, conv, app >>

NextDeps == CallVisitDependencies

SpecDeps == InitDeps /\ [][NextDeps]_vars

\* -------------------------------------------------- TryConvert directly
MaxLen == 2     \* elements of a candidate sequence
MaxCases == 2   \* cases passed to one call of TryConvert

\* the i-th element of a candidate sequence of element type e
Elems(e, n) == [i \in 1 .. n |-> << e, i >>]

\* the candidates: scalars, slices (one of a named slice type) and arrays
\* of 0 .. MaxLen elements, and nil
ConvSrcs ==
    { Val(ScalarT(t), Elems(t, 1)) : t \in {"F", "COption", "string", "int"} }
    \cup { Val(SliceT("", t), Elems(t, n)) : t \in {"F", "COption", "int"}, n \in 0 .. MaxLen }
    \cup { Val(SliceT("COptions", "COption"), Elems("COption", n)) : n \in 0 .. MaxLen }
    \cup { Val(ArrayT(t, n), Elems(t, n)) : t \in {"F", "string"}, n \in 1 .. MaxLen }
    \cup { NilSrc }

\* the parameter types of the cases
CaseTypes ==
    { ScalarT("COption"), ScalarT("string"), SliceT("", "COption"),
      SliceT("COptions", "COption"), SliceT("", "string"),
      ArrayT("COption", 2), ArrayT("F", 2) }

CaseLists == UNION { [1 .. n -> CaseTypes] : n \in 0 .. MaxCases }

InitConv ==
    /\ errs = <<>>
    /\ options = <<>>
    /\ dependencies = <<>>
    /\ prototype = ValueProto(ZeroConfig)
    /\ callables = <<>>
    /\ heap = InitHeap
    /\ inv = [i \in Invs |-> IdleInv]
    /\ tgt = NoTarget
    /\ walk = NoWalk
    /\ app = NoApp
    /\ conv \in [pc : {"call"}, src : ConvSrcs, cases : CaseLists, go120 : BOOLEAN,
                 res : { ConvResult(FALSE, FALSE, <<>>, <<>>) }]

\* TryConvert(src, cases...)
CallTryConvert ==
    /\ conv.pc = "call"
    /\ LET r == TryConvert(conv.src, conv.cases, conv.go120) IN
         conv' = [conv EXCEPT !.pc = IF r.panic THEN "panic" ELSE "done", !.res = r]
    /\ UNCHANGED << errs, options, dependencies, prototype, callables, heap, inv, tgt, walk, app >>

NextConv == CallTryConvert

SpecConv == InitConv /\ [][NextConv]_vars

\* ------------------------------------------------ IsDependency directly
\* the fields: exported or not, embedded or not, with the spellings of the
\* optional tag
DepFields ==
    { Field("X", pkg, anon, "string", optional) :
        pkg \in {"", "arrange"}, anon \in BOOLEAN,
        optional \in {"", "true", "1", "TRUE", "false"} }

\* the field values: zero and not, invalid, and read through an unexported
\* field
DepFieldValues ==
    LET vs == { StringV(""), StringV("x"), FuncV(NilOpt), FuncV(LitOpt(1, FALSE)),
                PtrV("*Inner", <<>>), PtrV("*Inner", << InnerV >>),
                StructV("E2", << StringV("") >>), E2V }
    IN  vs \cup { ReadOnly(v) : v \in vs } \cup { InvalidV }

InitIsDep ==
    /\ errs = <<>>
    /\ options = <<>>
    /\ dependencies = <<>>
    /\ prototype = ValueProto(ZeroConfig)
    /\ callables = <<>>
    /\ heap = InitHeap
    /\ inv = [i \in Invs |-> IdleInv]
    /\ tgt = NoTarget
    /\ walk \in [pc : {"call"}, f : DepFields, fv : DepFieldValues, res : {FALSE}]
    /\ app = NoApp
    /\ conv = NoConv

\* res := IsDependency(f, fv)
CallIsDependency ==
    /\ walk.pc = "call"
    /\ walk' = [walk EXCEPT !.pc = "done", !.res = IsDependency(walk.f, walk.fv)]
    /\ UNCHANGED << errs, options, dependencies, prototype, callables, heap, inv, tgt, conv, app >>

NextIsDep == CallIsDependency

SpecIsDep == InitIsDep /\ [][NextIsDep]_vars

\* ------------------------------------------- Dependency.Injected directly
\* the dependencies VisitDependencies builds: of a field, under each
\* spelling of the optional tag, and naked
Dependencies ==
    { newFieldDependency("DA", f, fv) :
        f \in { g \in DepFields : g.PkgPath = "" /\ ~g.Anonymous },
        fv \in { v \in DepFieldValues : IsValid(v) /\ CanInterface(v) } }
    \cup { NakedDependency(v) : v \in { w \in DepFieldValues : IsValid(w) } }

InitInjected ==
    /\ errs = <<>>
    /\ options = <<>>
    /\ dependencies = <<>>
    /\ prototype = ValueProto(ZeroConfig)
    /\ callables = <<>>
    /\ heap = InitHeap
    /\ inv = [i \in Invs |-> IdleInv]
    /\ tgt = NoTarget
    /\ walk \in [pc : {"call"}, d : Dependencies, res : {FALSE}]
    /\ app = NoApp
    /\ conv = NoConv

\* res := d.Injected()
CallInjected ==
    /\ walk.pc = "call"
    /\ walk' = [walk EXCEPT !.pc = "done", !.res = DependencyInjected(walk.d)]
    /\ UNCHANGED << errs, options, dependencies, prototype, callables, heap, inv, tgt, conv, app >>

NextInjected == CallInjected

SpecInjected == InitInjected /\ [][NextInjected]_vars

\* ------------------------------------------- aggregate options directly
MaxElems == 3   \* options in one aggregate

\* the lists of options: option k of a list has id k and fails or not
ElemLists ==
    UNION { { [k \in 1 .. n |-> Elem(k, fs[k])] : fs \in [1 .. n -> BOOLEAN] } :
            n \in 0 .. MaxElems }

\* the targets: two *http.Client / *http.Server
Targets == {"t1", "t2"}

Aggregates ==
    {"Options.Apply", "ApplyOptions", "ServerOptions.Apply", "COptions",
     "ClientOptions", "ServerOptions"}

InitOptions ==
    /\ errs = <<>>
    /\ options = <<>>
    /\ dependencies = <<>>
    /\ prototype = ValueProto(ZeroConfig)
    /\ callables = <<>>
    /\ heap = InitHeap
    /\ inv = [i \in Invs |-> IdleInv]
    /\ tgt = NoTarget
    /\ walk = NoWalk
    /\ conv = NoConv
    /\ app \in [pc : {"call"}, fn : Aggregates, opts : ElemLists, target : Targets,
                res : { Applied(NoErr, <<>>) }]

Finish(fn, r) ==
    /\ app.pc = "call"
    /\ app.fn = fn
    /\ app' = [app EXCEPT !.pc = "done", !.res = r]
    /\ UNCHANGED << errs, options, dependencies, prototype, callables, heap, inv, tgt,
                    walk, conv >>

\* err := Options[T](opts).Apply(target)
CallOptionsApply ==
    Finish("Options.Apply", OptionsApply(app.opts, app.target, 1, Applied(NoErr, <<>>)))

\* err := ApplyOptions(target, opts...)
CallApplyOptions ==
    Finish("ApplyOptions", ApplyOptions(app.target, app.opts, 1, Applied(NoErr, <<>>)))

\* err := ServerOptions(opts).Apply(target)
CallServerOptionsApply ==
    Finish("ServerOptions.Apply",
           ServerOptionsApply(app.opts, app.target, 1, Applied(NoErr, <<>>)))

\* err := COptions(opts...)(target)
CallCOptions == Finish("COptions", COptions(app.opts, app.target))

\* err := ClientOptions(opts...)(target)
CallClientOptions ==
    Finish("ClientOptions", TestedOptions(app.opts, app.target, 1, Applied(NoErr, <<>>)))

\* err := ServerOptions(opts...)(target)
CallServerOptions ==
    Finish("ServerOptions", TestedOptions(app.opts, app.target, 1, Applied(NoErr, <<>>)))

NextOptions ==
    \/ CallOptionsApply
    \/ CallApplyOptions
    \/ CallServerOptionsApply
    \/ CallCOptions
    \/ CallClientOptions
    \/ CallServerOptions

SpecOptions == InitOptions /\ [][NextOptions]_vars

\* ------------------------------------------ TryConvert(dst, src) directly
InitConvTo ==
    /\ errs = <<>>
    /\ options = <<>>
    /\ dependencies = <<>>
    /\ prototype = ValueProto(ZeroConfig)
    /\ callables = <<>>
    /\ heap = InitHeap
    /\ inv = [i \in Invs |-> IdleInv]
    /\ tgt = NoTarget
    /\ walk = NoWalk
    /\ app = NoApp
    /\ conv \in [pc : {"call"}, src : ConvSrcs, dst : CaseTypes, go120 : BOOLEAN,
                 res : { ConvToResult(NilResult, FALSE, FALSE) }]

\* TryConvert(dst, src)
CallTryConvertTo ==
    /\ conv.pc = "call"
    /\ conv' = [conv EXCEPT !.res = TryConvertTo(conv.dst, conv.src, conv.go120),
                            !.pc = IF TryConvertTo(conv.dst, conv.src, conv.go120).panic
                                   THEN "panic" ELSE "done"]
    /\ UNCHANGED << errs, options, dependencies, prototype, callables, heap, inv, tgt, walk, app >>

NextConvTo == CallTryConvertTo

SpecConvTo == InitConvTo /\ [][NextConvTo]_vars

\* ---------------------------------------------- ServerOptions.Add directly
MaxArgs == 2   \* values passed to one call of Add

\* the values passed to Add: of each type, failing or not where the value
\* can return an error
ServerValues ==
    { ServerValue(t, 1, f) : t \in {"ServerOptionFunc", "Option", "FuncError", "MyFunc"},
                             f \in BOOLEAN }
    \cup { ServerValue(t, 1, FALSE) :
             t \in {"OptionNoError", "Func", "MyFuncNoError", "string", "nil"} }

ArgLists2 == UNION { [1 .. n -> ServerValues] : n \in 0 .. MaxArgs }

InitServer ==
    /\ errs = <<>>
    /\ options = <<>>
    /\ dependencies = <<>>
    /\ prototype = ValueProto(ZeroConfig)
    /\ callables = <<>>
    /\ heap = InitHeap
    /\ inv = [i \in Invs |-> IdleInv]
    /\ tgt = NoTarget
    /\ walk = NoWalk
    /\ conv = NoConv
    /\ app \in [pc : {"add"},
                so : { <<>>, << ServerOpt("self", ServerValue("Option", 0, FALSE)) >> },
                old : {0}, args : ArgLists2, res : { <<>> }]

\* so.Add(args...)
CallAdd ==
    /\ app.pc = "add"
    /\ app' = [app EXCEPT !.pc = "apply", !.old = Len(app.so),
                          !.so = Add(app.so, app.args, 1)]
    /\ UNCHANGED << errs, options, dependencies, prototype, callables, heap, inv, tgt,
                    walk, conv >>

\* the caller applies each option of so
CallApplyEach ==
    /\ app.pc = "apply"
    /\ app' = [app EXCEPT !.pc = "done",
                          !.res = [k \in 1 .. Len(app.so) |-> ServerOptApply(app.so[k])]]
    /\ UNCHANGED << errs, options, dependencies, prototype, callables, heap, inv, tgt,
                    walk, conv >>

NextServer ==
    \/ CallAdd
    \/ CallApplyEach

SpecServer == InitServer /\ [][NextServer]_vars

\* ================================================================ claims
Done(i) == inv[i].pc = "done"

\* The options an invocation finds in its arguments, read off the fields
\* directly: O1 then O2 (when injected) of an InA, O3 then Emb.P of an InB.
EligibleOf(v) ==
    IF v.type = "InA"
    THEN << v.fields[2].opt >>
           \o (IF v.fields[4].opt # NilOpt THEN << v.fields[4].opt >> ELSE <<>>)
    ELSE << v.fields[3].opt, v.fields[2].fields[1].opt >>

RECURSIVE ExpectedInjected(_)
ExpectedInjected(inputs) ==
    IF inputs = <<>> THEN <<>>
    ELSE ExpectedInjected(SubSeq(inputs, 1, Len(inputs) - 1)) \o EligibleOf(inputs[Len(inputs)])

ExpectedOptions(i) == ExpectedInjected(inv[i].inputs) \o options

IsPrefix(s, t) == Len(s) <= Len(t) /\ s = SubSeq(t, 1, Len(s))

\* the errors of the failing options of a list, in order
FailureErrs(opts) ==
    LET failing == SelectSeq(opts, LAMBDA o : o.fails)
    IN  [k \in 1 .. Len(failing) |-> OptionErr(failing[k])]

\* C1: once decoding and NewClient have succeeded, every injected and every
\* literal option is applied, whatever earlier options returned, and the
\* error returned combines the errors of all failing options.
C1_AllOptionsApplied ==
    \A i \in Invs :
        (Done(i) /\ inv[i].walked) =>
            /\ inv[i].applied = ExpectedOptions(i)
            /\ inv[i].ret.err = Combine(FailureErrs(ExpectedOptions(i)))

\* C2: an invocation returns either the built client and a nil error, or a
\* nil client and a non-nil error; a client that an option failed on is
\* never returned.
C2_AllOrNothing ==
    \A i \in Invs :
        Done(i) =>
            /\ \/ /\ inv[i].ret.err = NoErr
                  /\ ~inv[i].ret.client.nil
                  /\ inv[i].ret.client = inv[i].client
               \/ /\ inv[i].ret.err # NoErr
                  /\ inv[i].ret.client = NilClient
            /\ (\E k \in 1 .. Len(inv[i].applied) : inv[i].applied[k].fails)
                   => inv[i].ret.client = NilClient

C2_Witness ==
    \E i \in Invs :
        /\ Done(i)
        /\ ~inv[i].client.nil
        /\ Len(inv[i].client.applied) > 0
        /\ inv[i].ret.client = NilClient
        /\ inv[i].ret.err # NoErr

\* C3: the options are applied in the order: injected ones by argument and
\* then by field discovery, then the literal ones in the order Use
\* registered them; a successful invocation has applied all of them.
C3_InjectedThenLiteral ==
    /\ \A k \in 1 .. Len(options) : options[k] = LitOpt(k, options[k].fails)
    /\ \A i \in Invs :
        /\ inv[i].walked => IsPrefix(inv[i].applied, ExpectedOptions(i))
        /\ (Done(i) /\ inv[i].walked /\ inv[i].ret.err = NoErr)
               => inv[i].ret.client.applied = ExpectedOptions(i)
        /\ \A j, k \in 1 .. Len(inv[i].applied) :
               (inv[i].applied[j].src = "lit" /\ inv[i].applied[k].src = "inj") => k < j

C3_Witness ==
    \E i \in Invs :
        /\ Done(i)
        /\ inv[i].ret.err = NoErr
        /\ Len(inv[i].inputs) = 2
        /\ inv[i].inputs[1].type = "InB"
        /\ inv[i].inputs[2].type = "InA"
        /\ Len(options) = 2
        /\ Len(inv[i].ret.client.applied) = 6

\* C4: when the decoder returns an error, NewClient is not invoked, no
\* option is applied, and the invocation returns a nil client and exactly
\* the decoder's error.
C4_DecodeError ==
    \A i \in Invs :
        (inv[i].decodeCalls > 0 /\ inv[i].env.decode = "err") =>
            /\ Done(i)
            /\ inv[i].factoryCalls = 0
            /\ ~inv[i].walked
            /\ inv[i].applied = <<>>
            /\ inv[i].ret = [client |-> NilClient, err |-> DecodeErr]

C4_Witness ==
    \E i \in Invs :
        /\ Done(i)
        /\ inv[i].decodeCalls = 1
        /\ inv[i].env.decode = "err"
        /\ options # <<>>
        /\ inv[i].inputs # <<>>

\* C5: when NewClient returns an error, the dependencies are not walked, no
\* option is applied and the invocation returns a nil client and exactly
\* that error; NewClient is invoked at most once, and only after the
\* decoder succeeded.
C5_FactoryError ==
    \A i \in Invs :
        /\ inv[i].factoryCalls <= 1
        /\ inv[i].factoryCalls = 1 => (inv[i].decodeCalls = 1 /\ inv[i].env.decode # "err")
        /\ (inv[i].factoryCalls = 1 /\ inv[i].env.factory = "err") =>
              /\ Done(i)
              /\ ~inv[i].walked
              /\ inv[i].opts = <<>>
              /\ inv[i].applied = <<>>
              /\ inv[i].ret = [client |-> NilClient, err |-> FactoryErr]

C5_Witness ==
    \E i \in Invs :
        /\ Done(i)
        /\ inv[i].factoryCalls = 1
        /\ inv[i].env.factory = "err"
        /\ options # <<>>
        /\ inv[i].inputs # <<>>

\* C6: a value passed to Use that is neither an option nor an fx.In struct
\* only leaves errors in the builder; every invocation made afterwards
\* returns a nil client and the combined, non-nil error without calling the
\* decoder, NewClient or any option.
C6_AccumulatedErrors ==
    \A i \in Invs :
        (Done(i) /\ errs # <<>>) =>
            /\ inv[i].ret.client = NilClient
            /\ inv[i].ret.err # NoErr
            /\ inv[i].ret.err = [kind |-> "multi", of |-> errs]
            /\ inv[i].target = NoTarget
            /\ inv[i].decodeCalls = 0
            /\ inv[i].factoryCalls = 0
            /\ inv[i].applied = <<>>

C6_Witness ==
    \E i \in Invs :
        /\ Done(i)
        /\ errs # <<>>
        /\ options # <<>>
        /\ inv[i].inputs # <<>>
        /\ inv[i].env.decode = "keep"
        /\ inv[i].env.factory = "ok"

Count(ts, t) == Cardinality({ k \in 1 .. Len(ts) : ts[k] = t })

InFlight(i) == inv[i].pc \in {"decode", "newClient", "apply"}

C8_State ==
    /\ \A i \in Invs :
          Done(i) =>
              LET alone == Run(NewInv(inv[i].fn, inv[i].inputs, inv[i].env), C, InitHeap).inv
              IN  /\ inv[i].ret = alone.ret
                  /\ inv[i].client = alone.client
                  /\ inv[i].applied = alone.applied
    /\ \A i \in Invs :
          InFlight(i) =>
              /\ inv[i].target.UnmarshalTo \in Addrs \ {UserAddr}
              /\ heap[inv[i].target.UnmarshalTo] # Free
              /\ \A j \in Invs \ {i} :
                    InFlight(j) => inv[j].target.UnmarshalTo # inv[i].target.UnmarshalTo
    /\ heap[UserAddr] = InitHeap[UserAddr]

C8_Independent == []C8_State /\ [][builder' = builder]_vars

C8_Witness ==
    \E i, j \in Invs :
        /\ i # j
        /\ Done(i)
        /\ inv[i].env.decode = "set"
        /\ inv[i].ret.err = NoErr
        /\ inv[i].ret.client.Timeout = MaxVal
        /\ InFlight(j)
        /\ inv[j].pc = "newClient"
        /\ inv[j].env.decode = "keep"
        /\ inv[j].target.UnmarshalTo # inv[i].target.UnmarshalTo
        /\ inv[j].fn # inv[i].fn

\* C9: a write through UnmarshalTo changes neither the prototype nor the
\* struct a pointer prototype points to.
C9_PrototypeUntouched ==
    [][ (tgt # NoTarget /\ tgt' = tgt) =>
            /\ prototype' = prototype
            /\ (prototype.kind = "ptr" /\ prototype.addr # 0)
                  => heap'[prototype.addr] = heap[prototype.addr] ]_vars

C9_Witness ==
    /\ tgt # NoTarget
    /\ prototype = PtrProto(UserAddr)
    /\ heap[tgt.UnmarshalTo].Timeout # heap[UserAddr].Timeout
    /\ heap[tgt.UnmarshalTo].Retries # heap[UserAddr].Retries

\* C10: UnmarshalTo is a non-nil pointer to storage that was not allocated
\* before, holding the pointee of a non-nil pointer prototype, the value of
\* a value prototype, and the zero value for a nil pointer prototype.
C10_FreshCopy ==
    [][ (tgt = NoTarget /\ tgt' # NoTarget) =>
            /\ tgt'.UnmarshalTo \in Addrs
            /\ heap[tgt'.UnmarshalTo] = Free
            /\ heap'[tgt'.UnmarshalTo] =
                  (IF prototype.kind = "value" THEN prototype.val
                   ELSE IF prototype.addr # 0 THEN heap[prototype.addr]
                   ELSE ZeroConfig)
            /\ \A a \in Addrs \ {tgt'.UnmarshalTo} : heap'[a] = heap[a] ]_vars

C10_Witness ==
    /\ tgt # NoTarget
    /\ prototype = PtrProto(UserAddr)
    /\ heap[UserAddr] # ZeroConfig
    /\ tgt.UnmarshalTo # UserAddr
    /\ heap[tgt.UnmarshalTo] = heap[UserAddr]

\* ----------------------------------------------------------- VisitFields
Returned == walk.pc = "done"
Ended == walk.pc \in {"done", "panic"}

\* The fields of the struct v that are to be visited, read off the types:
\* its exported fields, and those of its exported embedded structs.
RECURSIVE Reach(_)
Reach(v) ==
    LET fs == StructTypes[v.type]
        own == { i \in 1 .. Len(fs) : fs[i].PkgPath = "" }
    IN  { fs[i].Name : i \in own }
          \cup UNION { Reach(v.fields[i]) :
                         i \in { j \in own : fs[j].Anonymous /\ v.fields[j].kind = "struct" } }

CallNames(calls) == { calls[k].field : k \in 1 .. Len(calls) }
AlwaysContinue(vis) == \A n \in WalkNames : vis.result[n] = VisitContinue

\* the fields that are unexported, or lie beneath a named struct field or
\* beneath an unexported field
NeverVisited == {"n", "c", "hid", "H", "G"}

\* C11: with a visitor that always returns VisitContinue, VisitFields on a
\* struct root calls the visitor exactly once for every exported field of
\* the root and of the exported embedded structs reachable from it, and for
\* no unexported field and no field beneath a named or unexported field.
C11_EveryExportedField ==
    (Ended /\ AlwaysContinue(walk.vis) /\ Deref(walk.root).kind = "struct") =>
        /\ CallNames(walk.calls) = Reach(Deref(walk.root))
        /\ Len(walk.calls) = Cardinality(Reach(Deref(walk.root)))
        /\ CallNames(walk.calls) \cap NeverVisited = {}

\* C12: once the visitor has returned VisitTerminate it is not called again
\* in that walk, and VisitFields returns the dereferenced root struct.
C12_TerminateStops ==
    Ended =>
        /\ \A k \in 1 .. Len(walk.calls) - 1 : walk.calls[k].r # VisitTerminate
        /\ (Len(walk.calls) > 0 /\ walk.calls[Len(walk.calls)].r = VisitTerminate) =>
              /\ Returned
              /\ walk.rv.kind = "struct"
              /\ \E k \in 0 .. MaxPtr : walk.root = Wrap(walk.rv, k)

C12_Witness ==
    /\ Returned
    /\ walk.root = Wrap(WV, 1)
    /\ Len(walk.calls) = 3
    /\ walk.calls[1] = [field |-> "E1", r |-> VisitContinue]
    /\ walk.calls[3] = [field |-> "N", r |-> VisitTerminate]
    /\ walk.rv = WV

\* the field of the walked types that has the name n
FieldNamed(n) ==
    CHOOSE f \in UNION { { StructTypes[t][i] : i \in 1 .. Len(StructTypes[t]) } : t \in WalkTypes } :
        f.Name = n

\* the fields of the struct type t and of the struct types of its fields,
\* at any depth
RECURSIVE FieldsOf(_)
FieldsOf(t) ==
    LET fs == StructTypes[t] IN
    { fs[i].Name : i \in 1 .. Len(fs) }
      \cup UNION { FieldsOf(fs[i].Type) : i \in { j \in 1 .. Len(fs) : fs[j].Type \in WalkTypes } }

IsEmbeddedStruct(n) == FieldNamed(n).Anonymous /\ FieldNamed(n).Type \in WalkTypes

\* the visitor that returns VisitContinue where vis returns VisitSkip
NoSkip(vis) ==
    PolicyVisitor([n \in WalkNames |->
        IF vis.result[n] = VisitSkip THEN VisitContinue ELSE vis.result[n]])

Skipped == { walk.calls[k].field : k \in { j \in 1 .. Len(walk.calls) : walk.calls[j].r = VisitSkip } }
BeneathSkipped == UNION { FieldsOf(FieldNamed(n).Type) : n \in { m \in Skipped : IsEmbeddedStruct(m) } }
FieldSeq(calls) == [k \in 1 .. Len(calls) |-> calls[k].field]

\* C13: after VisitSkip for an embedded struct field no field of that
\* struct, at any depth, is visited; every other field that the walk
\* visits without the skip is still visited; VisitSkip for a field that is
\* not embedded leaves the walk as VisitContinue does.
C13_SkipEmbedded ==
    Ended =>
        LET without == VisitFields(walk.root, <<>>, NoSkip(walk.vis)) IN
        /\ CallNames(walk.calls) \cap BeneathSkipped = {}
        /\ CallNames(without.acc) \ BeneathSkipped \subseteq CallNames(walk.calls)
        /\ (\A n \in Skipped : ~FieldNamed(n).Anonymous) =>
              /\ FieldSeq(walk.calls) = FieldSeq(without.acc)
              /\ walk.rv = without.rv
              /\ walk.panic = without.panic

C13_Witness ==
    /\ Returned
    /\ walk.root = WV
    /\ Skipped = {"E1", "N"}
    /\ FieldSeq(walk.calls) = << "E1", "A", "N", "E2", "Z", "F" >>

\* C14: VisitFields returns an invalid value without calling the visitor
\* when a pointer on the way from the root is nil or what the pointers lead
\* to is not a struct, and returns the struct for a struct behind non-nil
\* pointers.
C14_InvalidOrStruct ==
    Ended =>
        /\ walk.root = InvalidV => (Returned /\ walk.rv = InvalidV /\ walk.calls = <<>>)
        /\ \A b \in VisitBases, k \in 0 .. MaxPtr :
              walk.root = Wrap(b, k) =>
                  IF b.kind = "struct"
                  THEN Returned /\ walk.rv = b
                  ELSE Returned /\ walk.rv = InvalidV /\ walk.calls = <<>>

\* ----------------------------------------------------- VisitDependencies
\* the leaf fields of one container, in declaration order: the exported
\* fields that are neither a marker nor a nested fx.In struct
IsMarker(f) == f.Type \in {"In", "Out"}
Leaves(c) ==
    LET fs == StructTypes[c.type]
        F[i \in 0 .. Len(fs)] ==
            IF i = 0 THEN <<>>
            ELSE IF fs[i].PkgPath = "" /\ ~IsMarker(fs[i]) /\ fs[i].Type \notin DepInTypes
                 THEN Append(F[i - 1], << c.type, c.fields[i] >>)
                 ELSE F[i - 1]
    IN  F[Len(fs)]

\* the nested fx.In structs of one container, in declaration order
Nested(c) ==
    LET fs == StructTypes[c.type]
        F[i \in 0 .. Len(fs)] ==
            IF i = 0 THEN <<>>
            ELSE IF fs[i].PkgPath = "" /\ fs[i].Type \in DepInTypes
                 THEN Append(F[i - 1], c.fields[i])
                 ELSE F[i - 1]
    IN  F[Len(fs)]

\* the depth-first order of the fields of one fx.In input: the leaves of
\* the struct itself, then each nested block with everything beneath it,
\* the block declared last first
RECURSIVE DepthFirst(_)
DepthFirst(c) ==
    LET ns == Nested(c)
        G[i \in 0 .. Len(ns)] ==
            IF i = 0 THEN <<>> ELSE DepthFirst(ns[i]) \o G[i - 1]
    IN  Leaves(c) \o G[Len(ns)]

\* what an always-true visitor is to see for the inputs deps
ExpectedCalls(deps) ==
    LET H[k \in 0 .. Len(deps)] ==
            IF k = 0 THEN <<>>
            ELSE IF deps[k].kind = "struct" /\ deps[k].type \in DepInTypes
                 THEN H[k - 1] \o DepthFirst(deps[k])
                 ELSE Append(H[k - 1], << "", deps[k] >>)
    IN  H[Len(deps)]

\* the struct and the value of each recorded call
SeenCalls(calls) ==
    [k \in 1 .. Len(calls) |-> << calls[k].dep.Container, calls[k].dep.Value >>]

\* C15: with a visitor that always returns true, VisitDependencies calls
\* the visitor exactly once for every leaf field of every fx.In input
\* (nested fx.In structs included, the fx.In / fx.Out marker fields and
\* the unexported fields excluded) and exactly once for every other input,
\* the inputs in input order and the fields of one input depth first.
C15_OncePerLeaf ==
    (walk.pc = "done" /\ walk.vis.stop = {}) =>
        SeenCalls(walk.calls) = ExpectedCalls(walk.deps)

C15_Witness ==
    /\ walk.pc = "done" /\ walk.vis.stop = {}
    /\ walk.deps = << StringV("k"), DAV >>
    /\ Len(walk.calls) = 9

\* C16: once the visitor has returned false, VisitDependencies calls it
\* no more: every call but the last one returned true, and what was
\* called is what a visitor that never returns false sees up to there.
C16_FalseStops ==
    walk.pc = "done" =>
        /\ \A k \in 1 .. Len(walk.calls) - 1 : walk.calls[k].r
        /\ LET all == VisitDependencies(DependencyVisitor({}), walk.deps) IN
             /\ Len(walk.calls) <= Len(all)
             /\ \A k \in 1 .. Len(walk.calls) : walk.calls[k].dep = all[k].dep
             /\ (Len(walk.calls) < Len(all)) => ~walk.calls[Len(walk.calls)].r

\* a false returned for a field with more fields after it in its struct,
\* with nested blocks on the stack and with another input to come
C16_Witness ==
    /\ walk.pc = "done"
    /\ walk.deps = << DAV, StringV("k") >>
    /\ Len(walk.calls) = 1
    /\ walk.calls[1].dep.Value = StringV("x")
    /\ ~walk.calls[1].r

\* ------------------------------------------------------------ TryConvert
ConvEnded == conv.pc \in {"done", "panic"}
IsSequence(t) == t.kind \in {"array", "slice"}

\* src converts to the parameter type of a case as a whole
Direct(i) == ConvertibleTo(conv.src.type, conv.cases[i], conv.go120)
\* every element of src converts to the element type of the parameter
Elementwise(i) ==
    /\ IsSequence(conv.src.type)
    /\ IsSequence(conv.cases[i])
    /\ ScalarConvertibleTo(conv.src.type.elem, conv.cases[i].elem)
\* case i is one TryConvert calls if it gets to it
Matches(i) == Direct(i) \/ (Elementwise(i) /\ conv.cases[i].kind = "slice")
NoneBefore(i) == \A j \in 1 .. i - 1 : ~Matches(j)

\* C17: TryConvert takes the cases in the order given and calls at most
\* one of them, the first one src converts to; it considers no case after
\* that one, and it returns true exactly when it called a case.
C17_FirstMatchOnly ==
    ConvEnded =>
        /\ Len(conv.res.invoked) <= 1
        /\ conv.res.ret <=> (conv.pc = "done" /\ Len(conv.res.invoked) = 1)
        /\ \A k \in 1 .. Len(conv.res.invoked) :
              LET i == conv.res.invoked[k].case IN
              /\ Matches(i) /\ NoneBefore(i)
              /\ conv.res.tried = [j \in 1 .. i |-> j]
        /\ (conv.pc = "done" /\ \E i \in 1 .. Len(conv.cases) : Matches(i)) =>
              Len(conv.res.invoked) = 1

\* two cases that both match: only the first one is called
C17_Witness ==
    /\ conv.pc = "done"
    /\ Len(conv.cases) = 2 /\ Matches(1) /\ Matches(2)
    /\ conv.res.ret
    /\ Len(conv.res.invoked) = 1 /\ conv.res.invoked[1].case = 1

\* case i called with a new sequence as long as src whose k-th element is
\* the conversion of the k-th element of src, and true returned
CalledElementwise(i) ==
    /\ conv.pc = "done"
    /\ conv.res.ret
    /\ Len(conv.res.invoked) = 1
    /\ conv.res.invoked[1].case = i
    /\ conv.res.invoked[1].arg.type = conv.cases[i]
    /\ Len(conv.res.invoked[1].arg.elems) = Len(conv.src.elems)
    /\ \A k \in 1 .. Len(conv.src.elems) :
          conv.res.invoked[1].arg.elems[k] = << conv.cases[i].elem, conv.src.elems[k][2] >>

\* C18, as stated: when src does not convert to the parameter type of a
\* case but src is a sequence (array or slice) and the parameter type is a
\* sequence (array or slice) to whose element type every element of src
\* converts, TryConvert calls the case with a new sequence as long as src
\* holding the converted elements, and returns true.
C18_ElementwiseAnySequence ==
    ConvEnded =>
        \A i \in 1 .. Len(conv.cases) :
            (NoneBefore(i) /\ ~Direct(i) /\ Elementwise(i)) => CalledElementwise(i)

\* C18, amended: the same where the parameter type of the case is a slice
\* and no case before it matches.
C18_ElementwiseToSlice ==
    ConvEnded =>
        \A i \in 1 .. Len(conv.cases) :
            (NoneBefore(i) /\ ~Direct(i) /\ Elementwise(i) /\ conv.cases[i].kind = "slice")
                => CalledElementwise(i)

\* an array of F converted element by element for a case taking []COption
C18_Witness ==
    /\ conv.pc = "done"
    /\ conv.src = Val(ArrayT("F", 2), Elems("F", 2))
    /\ conv.cases = << ScalarT("string"), SliceT("", "COption") >>
    /\ conv.res.invoked =
          << [case |-> 2, arg |-> Val(SliceT("", "COption"), Elems("COption", 2))] >>

\* C19: for every candidate, nil included, and every list of cases none of
\* which matches, TryConvert returns false, calls no case and does not
\* panic.
C19_NoMatchIsFalse ==
    (ConvEnded /\ \A i \in 1 .. Len(conv.cases) : ~Matches(i)) =>
        /\ conv.pc = "done"
        /\ ~conv.res.ret
        /\ conv.res.invoked = <<>>

\* ---------------------------------------------- injected dependency blocks
\* the options of the eligible fields of a block in field declaration
\* order, the fields of an embedded struct where the struct is declared
RECURSIVE Declared(_)
Declared(v) ==
    LET fs == StructTypes[v.type]
        F[i \in 0 .. Len(fs)] ==
            IF i = 0 THEN <<>>
            ELSE IF fs[i].PkgPath # "" THEN F[i - 1]
            ELSE IF fs[i].Anonymous /\ v.fields[i].kind = "struct"
                 THEN F[i - 1] \o Declared(v.fields[i])
            ELSE IF IsDependency(fs[i], v.fields[i]) /\ NewCOptionOk(v.fields[i])
                 THEN Append(F[i - 1], v.fields[i].opt)
                 ELSE F[i - 1]
    IN  F[Len(fs)]

DeclaredOf(inputs) ==
    LET G[k \in 0 .. Len(inputs)] ==
            IF k = 0 THEN <<>> ELSE G[k - 1] \o Declared(inputs[k])
    IN  G[Len(inputs)]

InjectedApplied(i) == SelectSeq(inv[i].applied, LAMBDA o : o.src = "inj")

\* C20: an invocation with injected dependency blocks whose NewClient
\* succeeded applies as options exactly the fields of the blocks that
\* satisfy IsDependency and convert to an option, in field declaration
\* order; the other fields contribute no option and no error: an error
\* returned is the error of an option that was applied.
C20_EligibleFieldsApplied ==
    \A i \in Invs :
        (Done(i) /\ inv[i].walked) =>
            /\ InjectedApplied(i) = DeclaredOf(inv[i].inputs)
            /\ inv[i].ret.err # NoErr =>
                   \E k \in 1 .. Len(inv[i].applied) : inv[i].ret.err = OptionErr(inv[i].applied[k])

\* ------------------------------------------------ the traversal stack
\* C30: VisitFields pushes and pops struct values only, so it never tries
\* to enumerate the fields of a value that is not a struct: a call on a
\* root that dereferences to a struct returns, with that struct.
C30_OnlyStructsOnStack ==
    (Ended /\ Deref(walk.root).kind = "struct") =>
        /\ ~walk.panic
        /\ Returned
        /\ walk.rv = Deref(walk.root)

\* ---------------------------------------------------------- IsDependency
\* C22: IsDependency is true exactly when the value is valid and can be
\* interfaced, the field is neither anonymous nor unexported, and it is not
\* so that the value is zero while the optional tag is the string "true";
\* a zero value under any other spelling of the tag is a dependency.
C22_IsDependencyExact ==
    walk.pc = "done" =>
        /\ walk.res <=>
              /\ walk.fv.kind # "invalid"
              /\ ~walk.fv.ro
              /\ ~walk.f.Anonymous
              /\ walk.f.PkgPath = ""
              /\ ~(IsZero(walk.fv) /\ walk.f.Optional = "true")
        /\ ( /\ walk.fv.kind # "invalid" /\ ~walk.fv.ro
             /\ ~walk.f.Anonymous /\ walk.f.PkgPath = ""
             /\ IsZero(walk.fv) /\ walk.f.Optional \in {"1", "TRUE"} ) => walk.res

C22_Witness ==
    /\ walk.pc = "done"
    /\ walk.fv = StringV("")
    /\ walk.f = Field("X", "", FALSE, "string", "TRUE")
    /\ walk.res

\* ------------------------------------------------------------- Dependency
\* the fx.In structs an input holds: itself and its nested fx.In structs
RECURSIVE Blocks(_)
Blocks(c) == {c} \cup UNION { Blocks(Nested(c)[k]) : k \in 1 .. Len(Nested(c)) }

BlocksOf(deps) ==
    UNION { Blocks(deps[k]) : k \in { j \in 1 .. Len(deps) : deps[j].type \in DepInTypes } }

\* C23: a Dependency the visitor gets for an input that is not an fx.In
\* struct has only Value set, and is the input itself, struct or not; a
\* Dependency for a field of an fx.In struct has for Container the type of
\* the struct that declares the field, and for Name and Group the name and
\* group tags of the field.
C23_DependencyFields ==
    walk.pc = "done" =>
        \A k \in 1 .. Len(walk.calls) :
            LET d == walk.calls[k].dep IN
            IF d.Container = ""
            THEN /\ d.Name = "" /\ d.Group = "" /\ ~d.Optional
                 /\ d.Tag = [name |-> "", group |-> "", optional |-> ""]
                 /\ \E j \in 1 .. Len(walk.deps) :
                       walk.deps[j] = d.Value /\ d.Value.type \notin DepInTypes
            ELSE \E c \in BlocksOf(walk.deps) :
                 \E i \in 1 .. Len(StructTypes[c.type]) :
                    LET f == StructTypes[c.type][i] IN
                    /\ c.type = d.Container
                    /\ c.fields[i] = d.Value
                    /\ f.PkgPath = "" /\ ~IsMarker(f) /\ f.Type \notin DepInTypes
                    /\ d.Name = f.TagName
                    /\ d.Group = f.Group

\* a struct that does not embed fx.In passed as it is, a field with a name
\* tag, and a field with a group tag in a nested block
C23_Witness ==
    /\ walk.pc = "done"
    /\ walk.deps = << E2V, DAV >>
    /\ walk.calls[1].dep = NakedDependency(E2V)
    /\ \E k \in 1 .. Len(walk.calls) :
          /\ walk.calls[k].dep.Container = "DA"
          /\ walk.calls[k].dep.Name = "x"
          /\ walk.calls[k].dep.Value = StringV("x")
    /\ \E k \in 1 .. Len(walk.calls) :
          /\ walk.calls[k].dep.Container = "DB"
          /\ walk.calls[k].dep.Group = "g"
    /\ Len(walk.calls) = 9

\* ----------------------------------------------------- Dependency.Injected
\* C24: Injected() is false exactly when Optional is true and Value is the
\* zero value of its type; so it is true for every naked dependency and for
\* every dependency of a field that is not optional, zero or not.
C24_InjectedUnlessOptionalZero ==
    walk.pc = "done" =>
        /\ ~walk.res <=> (walk.d.Optional /\ IsZero(walk.d.Value))
        /\ walk.d.Container = "" => walk.res
        /\ walk.d.Tag.optional \notin {"1", "t", "T", "TRUE", "true", "True"} => walk.res

C24_Witness ==
    /\ walk.pc = "done"
    /\ walk.d.Container = "DA"
    /\ walk.d.Tag.optional = ""
    /\ IsZero(walk.d.Value)
    /\ walk.res

\* -------------------------------------------------------- Target.Component
\* C25: for a pointer prototype, nil or not, Component is the pointer
\* UnmarshalTo; for a value prototype Component is the struct UnmarshalTo
\* points to; in both cases what is written through UnmarshalTo after
\* NewTarget returned is what Component shows.
C25_ComponentSharesStorage ==
    tgt # NoTarget =>
        /\ prototype.kind = "ptr" => tgt.Component = "ptr"
        /\ prototype.kind = "value" => tgt.Component = "elem"
        /\ ComponentValue(tgt, heap, prototype) = heap[tgt.UnmarshalTo]

\* a value prototype whose Target was written to after NewTarget
C25_Witness ==
    /\ tgt # NoTarget
    /\ prototype.kind = "value"
    /\ heap[tgt.UnmarshalTo].Timeout # prototype.val.Timeout
    /\ ComponentValue(tgt, heap, prototype) = heap[tgt.UnmarshalTo]

\* ------------------------------------------------- the builder's life cycle
\* C27: once Unmarshal or UnmarshalKey has produced a callable the builder
\* accumulates no more: its options, dependency types, errors and prototype
\* stay what they were at synthesis, so that is what every later invocation
\* of the callable observes.
C27_FrozenAfterSynthesis ==
    [][ callables # <<>> =>
            /\ options' = options
            /\ dependencies' = dependencies
            /\ errs' = errs
            /\ prototype' = prototype ]_vars

\* ------------------------------------------------------ aggregate options
AppDone == app.pc = "done"
\* the errors of the failing options of a list, in order
FailingErrs(opts) ==
    LET failing == SelectSeq(opts, LAMBDA el : el.fails)
    IN  [k \in 1 .. Len(failing) |-> [kind |-> "option", of |-> << failing[k].id >>]]
\* the calls of the first n options of a list on the target t
CallsOf(opts, n, t) == [k \in 1 .. n |-> [id |-> opts[k].id, target |-> t]]
\* the first failing option of a list, or one past its end
FirstFailing(opts) ==
    IF \E k \in 1 .. Len(opts) : opts[k].fails
    THEN CHOOSE k \in 1 .. Len(opts) : opts[k].fails /\ \A j \in 1 .. k - 1 : ~opts[j].fails
    ELSE Len(opts) + 1

\* C21: Options.Apply, ApplyOptions and ServerOptions.Apply call every
\* element once, in slice order, whichever elements fail; they return nil
\* exactly when no element failed, and otherwise the errors of all failing
\* elements, in the order of application.
C21_AllElementsApplied ==
    (AppDone /\ app.fn \in {"Options.Apply", "ApplyOptions", "ServerOptions.Apply"}) =>
        /\ app.res.calls = CallsOf(app.opts, Len(app.opts), app.target)
        /\ app.res.err = NoErr <=> \A k \in 1 .. Len(app.opts) : ~app.opts[k].fails
        /\ app.res.err # NoErr => Errors(app.res.err) = FailingErrs(app.opts)

C21_Witness ==
    /\ AppDone
    /\ app.fn = "Options.Apply"
    /\ app.opts = << Elem(1, TRUE), Elem(2, FALSE), Elem(3, TRUE) >>
    /\ Len(app.res.calls) = 3
    /\ app.res.err.kind = "multi"
    /\ Len(app.res.err.of) = 2

Invocable(v) ==
    \/ ServerTypes[v.type].apply # ""
    \/ ServerTypes[v.type].underlying \in {"func(*http.Server) error", "func(*http.Server)"}

\* C29: Add appends one option for each argument, in argument order, after
\* the options it held; the option for a value that implements
\* ServerOption, has an Apply(*http.Server) without error, or is a function
\* of underlying type func(*http.Server) or func(*http.Server) error (named
\* function types included) calls the value when applied; the option for
\* any other value returns an InvalidServerOptionTypeError that names the
\* type of the value.
C29_AsServerOption ==
    app.pc = "done" =>
        /\ Len(app.so) = app.old + Len(app.args)
        /\ \A k \in 1 .. Len(app.args) :
              LET v == app.args[k]
                  r == app.res[app.old + k]
              IN  /\ app.so[app.old + k].v = v
                  /\ IF Invocable(v)
                     THEN /\ r.called
                          /\ r.err.kind # "cannot be converted to a ServerOption"
                     ELSE /\ ~r.called
                          /\ r.err = InvalidServerOptionTypeError(v.type)

\* ------------------------------------------------------ TryConvert(dst, src)
\* src converts to dst as a whole
DirectlyConvertible ==
    ConvertibleTo(conv.src.type, conv.dst, conv.go120)
\* src is a sequence the element type of which converts to dst
ElementwiseConvertible ==
    /\ conv.src.type.kind \in {"array", "slice"}
    /\ ConvertibleTo(ScalarT(conv.src.type.elem), conv.dst, conv.go120)

\* C26: TryConvert(dst, src) returns true whenever src converts to dst as
\* a whole or is a sequence whose element type converts to dst, with a
\* slice of dst's type that has one element for a scalar src and the
\* elements of src converted in order for a sequence src; for any other
\* src it returns nil and false.
C26_AcceptsDirectOrElementwise ==
    conv.pc \in {"done", "panic"} =>
        /\ conv.pc = "done"
        /\ IF DirectlyConvertible \/ ElementwiseConvertible
           THEN /\ conv.res.ok
                /\ conv.res.ret.elem = conv.dst
                /\ Len(conv.res.ret.elems) = Len(conv.src.elems)
                /\ \A i \in 1 .. Len(conv.src.elems) :
                      conv.res.ret.elems[i] = << conv.dst.name, conv.src.elems[i][2] >>
           ELSE /\ ~conv.res.ok
                /\ conv.res.ret = NilResult

====
